---- MODULE Spec2Model ----
(***************************************************************************)
(* A model of cozy-matches: the UCI engine session (engine/mod.rs), its    *)
(* line transport (engine/raw_engine.rs), the castling conversions         *)
(* (engine/uci_convert.rs), ChessGame (game.rs) and the match driver with  *)
(* its clocks (engine_match.rs).                                           *)
(*                                                                         *)
(* The chess rules library (cozy_chess) is outside the repository.  It is  *)
(* stood in for by a small rule set on the two home ranks: kings step one  *)
(* file, rooks slide along the rank, a king castles by taking its own      *)
(* rook, and a rook that reaches the opposing home rank mates.  A board    *)
(* carries a halfmove clock and is drawn when the clock reaches the        *)
(* fifty-move limit.                                                       *)
(***************************************************************************)
EXTENDS Integers, Sequences, FiniteSets, TLC

---------------------------------------------------------------------------
(* Bounds of the model.                                                    *)

\* Moves the match driver plays in one run.
MaxPlies == 3
\* Remarks other than bestmove a child writes over one run.
MaxRemarks == 2
\* Lines a child's stdout pipe holds unread.
MaxPipe == 1
\* Analyses a caller starts on a session in the session specification.
MaxAnalyses == 2
\* Updates applied to a clock in the clock specification.
MaxUpdates == 2
\* Lines a child writes over a handshake, the uciok among them.
MaxHandshake == 4
\* Calls of set_option on a session.
MaxSets == 2
\* Plies of a game played move by move.
MaxGamePlies == 8

---------------------------------------------------------------------------
(* Chess primitives (cozy_chess), as far as the repository uses them.      *)

None == "None"

Color == {"White", "Black"}

\* !color
Not(c) == IF c = "White" THEN "Black" ELSE "White"

FileA == 1
FileC == 3
FileD == 4
FileE == 5
FileF == 6
FileG == 7
FileH == 8
File == FileA .. FileH

HomeRank(c) == IF c = "White" THEN 1 ELSE 8
Rank == {HomeRank("White"), HomeRank("Black")}

Square == [file : File, rank : Rank]
Sq(f, r) == [file |-> f, rank |-> r]

\* Move { from, to, promotion }
Mv(from, to) == [from |-> from, to |-> to, promotion |-> None]

\* The fifty-move limit of Board::status, in halfmoves.
HalfmoveLimit == 100

\* A board: the placed pieces, the side to move, each side's castle rights
\* (an Option<File>: {} for None, {f} for Some(f)) and the halfmove clock.
Pc(f, r, c, p) == [sq |-> Sq(f, r), color |-> c, piece |-> p]

NoRights == [short |-> {}, long |-> {}]

MkBoard(pieces, stm, wr, br, hm) ==
    [pieces |-> pieces, side_to_move |-> stm,
     castle_rights |-> [White |-> wr, Black |-> br],
     halfmove_clock |-> hm]

side_to_move(b) == b.side_to_move

castle_rights(b, c) == b.castle_rights[c]

Occupied(b, sq) == \E p \in b.pieces : p.sq = sq

\* Board::piece_on, None for an empty square
piece_on(b, sq) ==
    IF Occupied(b, sq) THEN (CHOOSE p \in b.pieces : p.sq = sq).piece ELSE None

\* Board::color_on, None for an empty square
color_on(b, sq) ==
    IF Occupied(b, sq) THEN (CHOOSE p \in b.pieces : p.sq = sq).color ELSE None

\* Board::same_position: the clocks are not compared
same_position(a, b) ==
    /\ a.pieces = b.pieces
    /\ a.side_to_move = b.side_to_move
    /\ a.castle_rights = b.castle_rights

Between(f, g) == {h \in File : (f < h /\ h < g) \/ (g < h /\ h < f)}

Span(f, g) == Between(f, g) \cup {f, g}

\* The king's and the rook's files after castling with the rook on file rf.
CastleKingFile(b, rf) ==
    IF castle_rights(b, side_to_move(b)).short = {rf} THEN FileG ELSE FileC

CastleRookFile(b, rf) ==
    IF castle_rights(b, side_to_move(b)).short = {rf} THEN FileF ELSE FileD

IsCastle(b, mv) ==
    LET stm == side_to_move(b)
        r == HomeRank(stm)
        rights == castle_rights(b, stm)
    IN  /\ mv.from.rank = r /\ mv.to.rank = r
        /\ piece_on(b, mv.from) = "King" /\ color_on(b, mv.from) = stm
        /\ piece_on(b, mv.to) = "Rook" /\ color_on(b, mv.to) = stm
        /\ mv.to.file \in rights.short \cup rights.long
        /\ \A h \in Span(mv.from.file, CastleKingFile(b, mv.to.file))
                    \cup Span(mv.to.file, CastleRookFile(b, mv.to.file)) :
              ~Occupied(b, Sq(h, r)) \/ h \in {mv.from.file, mv.to.file}

IsKingStep(b, mv) ==
    LET stm == side_to_move(b)
    IN  /\ piece_on(b, mv.from) = "King" /\ color_on(b, mv.from) = stm
        /\ mv.to.rank = mv.from.rank
        /\ mv.to.file \in {mv.from.file - 1, mv.from.file + 1}
        /\ ~Occupied(b, mv.to)

IsRookSlide(b, mv) ==
    LET stm == side_to_move(b)
    IN  /\ piece_on(b, mv.from) = "Rook" /\ color_on(b, mv.from) = stm
        /\ mv.from.rank = HomeRank(stm)
        /\ mv.to.rank = mv.from.rank /\ mv.to.file # mv.from.file
        /\ ~Occupied(b, mv.to)
        /\ \A h \in Between(mv.from.file, mv.to.file) :
              ~Occupied(b, Sq(h, mv.from.rank))

\* A rook goes down its file to the opposing home rank.
IsRaid(b, mv) ==
    LET stm == side_to_move(b)
    IN  /\ piece_on(b, mv.from) = "Rook" /\ color_on(b, mv.from) = stm
        /\ mv.from.rank = HomeRank(stm)
        /\ mv.to.rank = HomeRank(Not(stm)) /\ mv.to.file = mv.from.file
        /\ ~Occupied(b, mv.to)

\* Board::status of the board alone
BoardStatus(b) ==
    IF \E p \in b.pieces : /\ p.piece = "Rook"
                           /\ p.color = Not(side_to_move(b))
                           /\ p.sq.rank = HomeRank(side_to_move(b))
    THEN "Won"
    ELSE IF b.halfmove_clock >= HalfmoveLimit THEN "Drawn" ELSE "Ongoing"

\* Board::is_legal
IsLegal(b, mv) ==
    /\ BoardStatus(b) # "Won"
    /\ mv.promotion = None
    /\ mv.from \in Square /\ mv.to \in Square
    /\ IsCastle(b, mv) \/ IsKingStep(b, mv) \/ IsRookSlide(b, mv) \/ IsRaid(b, mv)

RightsAfter(b, mv) ==
    LET stm == side_to_move(b)
        rights == castle_rights(b, stm)
    IN  IF piece_on(b, mv.from) = "King"
        THEN [b.castle_rights EXCEPT ![stm] = NoRights]
        ELSE [b.castle_rights EXCEPT ![stm] =
                [short |-> rights.short \ {mv.from.file},
                 long  |-> rights.long \ {mv.from.file}]]

PiecesAfter(b, mv) ==
    LET stm == side_to_move(b)
        r == HomeRank(stm)
    IN  IF IsCastle(b, mv)
        THEN {p \in b.pieces : p.sq \notin {mv.from, mv.to}}
             \cup {Pc(CastleKingFile(b, mv.to.file), r, stm, "King"),
                   Pc(CastleRookFile(b, mv.to.file), r, stm, "Rook")}
        ELSE {p \in b.pieces : p.sq # mv.from}
             \cup {[sq |-> mv.to, color |-> stm, piece |-> piece_on(b, mv.from)]}

\* Board::play of a legal move (it panics on an illegal one)
BoardPlay(b, mv) ==
    [pieces |-> PiecesAfter(b, mv),
     side_to_move |-> Not(side_to_move(b)),
     castle_rights |-> RightsAfter(b, mv),
     halfmove_clock |-> b.halfmove_clock + 1]

---------------------------------------------------------------------------
(* ChessGame (game.rs).                                                    *)

\* ChessGame::new
ChessGame_new(init_pos) == [init_pos |-> init_pos, stack |-> <<>>]

\* ChessGame::board
board(game) ==
    IF Len(game.stack) = 0 THEN game.init_pos
    ELSE game.stack[Len(game.stack)].board

\* ChessGame::needs_chess960
needs_chess960(game) ==
    LET standard(color) ==
            LET rights == castle_rights(game.init_pos, color)
            IN  rights.long \subseteq {FileA} /\ rights.short \subseteq {FileH}
    IN  ~standard("White") \/ ~standard("Black")

\* ChessGame::status
status(game) ==
    LET st == BoardStatus(board(game))
        repetitions ==
            Cardinality({i \in 1 .. Len(game.stack) :
                            same_position(game.stack[i].board, board(game))})
    IN  IF st # "Ongoing" THEN st
        ELSE IF repetitions >= 3 THEN "Drawn"
        ELSE "Ongoing"

\* play with the move made on the starting board.
play_from_init(game, mv) ==
    [game EXCEPT !.stack =
        Append(@, [mv |-> mv, board |-> BoardPlay(game.init_pos, mv)])]

\* ChessGame::play, for a move Board::play accepts
play(game, mv) ==
    [game EXCEPT !.stack =
        Append(@, [mv |-> mv, board |-> BoardPlay(board(game), mv)])]

\* Board::play panics on an illegal move, and so does ChessGame::play.
play_panics(game, mv) == ~IsLegal(board(game), mv)

RECURSIVE play_all(_, _)
play_all(game, mvs) ==
    IF Len(mvs) = 0 THEN game
    ELSE play_all(play(game, Head(mvs)), Tail(mvs))

---------------------------------------------------------------------------
(* Clocks (engine_match.rs).                                               *)

\* std::time::Duration is finite: 0 .. DurationMax in the model's unit, and
\* the sum of two durations panics when it leaves the range.
DurationMax == 5
Duration == 0 .. DurationMax

Infinite == [kind |-> "Infinite"]
MoveTime(d) == [kind |-> "MoveTime", move_time |-> d]
Clock(t, i) == [kind |-> "Clock", time |-> t, increment |-> i]

ChessClockState ==
    {Infinite} \cup {MoveTime(d) : d \in Duration}
               \cup {Clock(t, i) : t \in Duration, i \in Duration}

\* Duration::saturating_sub
saturating_sub(a, b) == IF a >= b THEN a - b ELSE 0

\* update with MoveTime flagging at elapsed = move_time already.
update_flag_at_limit(clock, elapsed) ==
    CASE clock.kind = "Infinite" ->
            [clock |-> clock, timed_out |-> FALSE, panicked |-> FALSE]
      [] clock.kind = "MoveTime" ->
            [clock |-> clock, timed_out |-> elapsed >= clock.move_time,
             panicked |-> FALSE]
      [] clock.kind = "Clock" ->
            IF clock.time + clock.increment > DurationMax
            THEN [clock |-> clock, timed_out |-> FALSE, panicked |-> TRUE]
            ELSE LET time == saturating_sub(clock.time + clock.increment, elapsed)
                 IN  [clock |-> [clock EXCEPT !.time = time],
                      timed_out |-> time = 0, panicked |-> FALSE]

\* ChessClockState::update: the clock afterwards and the returned flag;
\* panicked when `*time + *increment` overflows.
update(clock, elapsed) ==
    CASE clock.kind = "Infinite" ->
            [clock |-> clock, timed_out |-> FALSE, panicked |-> FALSE]
      [] clock.kind = "MoveTime" ->
            [clock |-> clock, timed_out |-> elapsed > clock.move_time,
             panicked |-> FALSE]
      [] clock.kind = "Clock" ->
            IF clock.time + clock.increment > DurationMax
            THEN [clock |-> clock, timed_out |-> FALSE, panicked |-> TRUE]
            ELSE LET time == saturating_sub(clock.time + clock.increment, elapsed)
                 IN  [clock |-> [clock EXCEPT !.time = time],
                      timed_out |-> time = 0, panicked |-> FALSE]

\* ChessClockState::as_tc, an Option as a set
as_tc(clock) == IF clock.kind = "Clock" THEN {clock} ELSE {}

---------------------------------------------------------------------------
(* Move conversions and command translators (engine/uci_convert.rs).       *)

\* UciMoveInto<Move> for UciMove: a move as the engine writes it, made the
\* king-takes-rook move the program uses.
canonicalize_move(b, mv, chess960) ==
    LET convert_castle ==
            /\ ~chess960
            /\ piece_on(b, mv.from) = "King"
            /\ mv.from.file = FileE
            /\ mv.to.file \in {FileC, FileG}
        file == IF mv.to.file = FileC THEN FileA ELSE FileH
    IN  IF convert_castle
        THEN [mv EXCEPT !.to = Sq(file, mv.to.rank)]
        ELSE mv

\* UciMoveInto<UciMove> for Move: the program's move as it is written to
\* the engine.
decanonicalize_move(b, mv, chess960) ==
    IF ~chess960 /\ color_on(b, mv.from) = color_on(b, mv.to)
    THEN LET rights == castle_rights(b, side_to_move(b))
             file == IF {mv.to.file} = rights.short THEN FileG ELSE FileC
         IN  [mv EXCEPT !.to = Sq(file, mv.to.rank)]
    ELSE mv

\* game_to_position_message, with the chess960 flag Engine::analyze passes
game_to_position_message(game, chess960) ==
    [cmd |-> "Position",
     init_pos |-> game.init_pos,
     moves |-> [i \in 1 .. Len(game.stack) |->
                  decanonicalize_move(
                      IF i > 1 THEN game.stack[i - 1].board ELSE game.init_pos,
                      game.stack[i].mv, chess960)]]

\* The largest duration the go command can carry (convert_time saturates).
WireDurationMax == 4

\* convert_time of From<AnalysisTimeLimit> for UciTimeControl
convert_time(d) == IF d > WireDurationMax THEN WireDurationMax ELSE d

\* From<AnalysisTimeLimit> for UciTimeControl; an Option is a set
time_limit_into(limit) ==
    CASE limit.kind = "Infinite" -> limit
      [] limit.kind = "MoveTime" ->
            [kind |-> "MoveTime", move_time |-> convert_time(limit.move_time)]
      [] limit.kind = "TimeLeft" ->
            [kind |-> "TimeLeft",
             white_time |-> {convert_time(d) : d \in limit.white_time},
             black_time |-> {convert_time(d) : d \in limit.black_time},
             white_increment |-> {convert_time(d) : d \in limit.white_increment},
             black_increment |-> {convert_time(d) : d \in limit.black_increment},
             moves_to_go |-> limit.moves_to_go]

\* analysis_limit_to_go_message
analysis_limit_to_go_message(limit) ==
    [cmd |-> "Go",
     time_control |-> {time_limit_into(l) : l \in limit.time_limit},
     search_control |-> limit.search_limit]

---------------------------------------------------------------------------
(* Boards, games and engines the specifications start from.                *)

StdPieces ==
    {Pc(FileE, 1, "White", "King"), Pc(FileH, 1, "White", "Rook"),
     Pc(FileE, 8, "Black", "King"), Pc(FileA, 8, "Black", "Rook")}

\* Kings on the E file, White may castle short and Black long.
StdBoard(hm) ==
    MkBoard(StdPieces, "White",
            [short |-> {FileH}, long |-> {}], [short |-> {}, long |-> {FileA}], hm)

\* White to move with a black rook on its home rank: White is mated.
WonBoard ==
    MkBoard({Pc(FileE, 1, "White", "King"), Pc(FileE, 8, "Black", "King"),
             Pc(FileA, 1, "Black", "Rook")},
            "White", NoRights, NoRights, 0)

\* A Chess960 start: the kings on E castle with the rooks on G.
FrcBoard ==
    MkBoard({Pc(FileE, 1, "White", "King"), Pc(FileG, 1, "White", "Rook"),
             Pc(FileE, 8, "Black", "King"), Pc(FileG, 8, "Black", "Rook")},
            "White",
            [short |-> {FileG}, long |-> {}], [short |-> {FileG}, long |-> {}], 0)

\* A Chess960 start with the rooks on A and H and the kings on D.
KingOnDBoard ==
    MkBoard({Pc(FileD, 1, "White", "King"), Pc(FileA, 1, "White", "Rook"),
             Pc(FileH, 1, "White", "Rook"),
             Pc(FileD, 8, "Black", "King"), Pc(FileA, 8, "Black", "Rook"),
             Pc(FileH, 8, "Black", "Rook")},
            "White",
            [short |-> {FileH}, long |-> {FileA}],
            [short |-> {FileH}, long |-> {FileA}], 0)

\* The pieces of StdBoard after both sides have lost their castle rights.
BareBoard == MkBoard(StdPieces, "White", NoRights, NoRights, 0)

W_h1g1 == Mv(Sq(FileH, 1), Sq(FileG, 1))
W_g1h1 == Mv(Sq(FileG, 1), Sq(FileH, 1))
B_a8b8 == Mv(Sq(FileA, 8), Sq(FileA + 1, 8))
B_b8a8 == Mv(Sq(FileA + 1, 8), Sq(FileA, 8))

Shuffle == <<W_h1g1, B_a8b8, W_g1h1, B_b8a8>>

\* Nine plies of rook shuffling: Black's a8b8 repeats a position the third
\* time.
RepGame ==
    play_all(ChessGame_new(StdBoard(0)), Shuffle \o Shuffle \o <<W_h1g1>>)

\* The moves a child may answer a search with, as it writes them.
WireMoves ==
    {Mv(Sq(FileE, 1), Sq(FileG, 1)),      \* e1g1: White castles
     W_h1g1,
     Mv(Sq(FileH, 1), Sq(FileH, 8)),      \* h1h8: mate
     B_a8b8,
     Mv(Sq(FileA, 8), Sq(FileA, 1))}      \* a8a1: mate

\* Option tables after the handshake (Engine.options).
Check(v) == [type |-> "Check", value |-> v]

NoOptions == [n \in {} |-> Check(FALSE)]

Chess960Table(v) == [n \in {"UCI_Chess960"} |-> Check(v)]

\* Engine::chess960_enabled
chess960_enabled(opts) ==
    /\ "UCI_Chess960" \in DOMAIN opts
    /\ opts["UCI_Chess960"].type = "Check"
    /\ opts["UCI_Chess960"].value = TRUE

---------------------------------------------------------------------------
(* State.                                                                  *)

VARIABLES
    \* Engine sessions, one per colour (EngineMatch.engines)
    options,        \* Engine.options
    stdin,          \* the commands written to the child, in order
    pipe,           \* the lines the child wrote and the session has not read
    child,          \* the child: its ends of the pipes, searches asked and answered
    stream,         \* the analysis stream borrowed from the session
    item,           \* what the stream's last poll returned
    recvd,          \* the remarks the stream has received
    yielded,        \* the events the stream has yielded
    last_call,      \* the last analyze call and what it returned
    written,        \* remarks other than bestmove the child has written
    \* EngineMatch::run
    config,         \* EngineMatch.config
    game,           \* EngineMatch.game
    white_clock, black_clock,
    match_result,   \* an Option<Option<Color>>: {}, {None} or {colour}
    pc,             \* where run is
    best_move,      \* an Option<Move>
    events,         \* the events run has yielded
    event_move,     \* for each of them, the move it was yielded at
    error,          \* the error or the panic run ended with
    plies,          \* the moves run has played
    last_ply,       \* the last move played: what the driver saw when it decided
    failed_at,      \* what had been played and sent when run failed
    \* A clock on its own
    clk, clk_prev, clk_elapsed, clk_out, clk_updates,
    \* Engine::new and Engine::set_option
    hs,             \* Engine::init: where it is, its locals, what it returned
    hs_recvd,       \* the remarks init has received
    last_set,       \* the last set_option call and what it returned
    \* A game and the moves played in it, as they go over the wire
    cv_chess960,    \* the Chess960 state the moves are converted under
    cv_last         \* the last move played and its conversions

sessVars == <<options, stdin, pipe, child, stream, item, recvd, yielded,
              last_call, written>>
matchVars == <<config, game, white_clock, black_clock, match_result, pc,
               best_move, events, event_move, error, plies, last_ply,
               failed_at>>
clockVars == <<clk, clk_prev, clk_elapsed, clk_out, clk_updates>>
hsVars == <<hs, hs_recvd, last_set>>
gameVars == <<cv_chess960, cv_last>>
vars == <<sessVars, matchVars, clockVars, hsVars, gameVars>>

---------------------------------------------------------------------------
(* The line transport (engine/raw_engine.rs) and the child process.        *)

\* A child after the handshake: both pipes open, no search asked.
ChildUp == [stdin_open |-> TRUE, stdout_open |-> TRUE, gos |-> 0, answered |-> 0]
\* No stream borrows the session.
NoStream == [state |-> "none"]
\* The stream has not returned from a poll yet.
NoItem == [kind |-> "None"]
\* analyze has not been called.
NoCall == [result |-> "none", sent |-> 0, n |-> 0, needs960 |-> FALSE, enabled960 |-> FALSE]

InfoPayload == {1, 2}
InfoRemark(n) == [type |-> "Info", info |-> n]
BestMoveRemark(mv) == [type |-> "BestMove", mv |-> mv]
\* A remark an analysis does not expect.
ReadyOk == [type |-> "ReadyOk"]
\* A line UciRemark::parse_from rejects.
Garbage == [type |-> "Garbage"]

\* The lines a child writes that answers its searches with the moves mvs.
Line(mvs) ==
    {InfoRemark(n) : n \in InfoPayload}
        \cup {BestMoveRemark(mv) : mv \in mvs}
        \cup {ReadyOk, Garbage}

\* No error has been returned.
NoError == [kind |-> "None"]
IoError == [kind |-> "IoError"]
UnexpectedTermination == [kind |-> "UnexpectedTermination"]
InvalidMessage(line) == [kind |-> "InvalidMessage", line |-> line]
UnexpectedRemark(rmk) == [kind |-> "UnexpectedRemark", remark |-> rmk]

\* A session lent out to nothing.
borrowed_never(c) == FALSE

\* analyze(&mut self, ..) -> Result<EngineAnalysis<'_>, ..>: the stream holds
\* the session's exclusive borrow until it is dropped.
borrowed(c) == stream[c].state # "none"

\* The end of the stream taken for a failed read.
at_end_of_stream_io == IoError

\* .ok_or(EngineError::UnexpectedTermination) on the Ok(None) of recv
at_end_of_stream == UnexpectedTermination

\* RawEngine::send: write_all fails when the child has closed its stdin.
send_ok(c) == child[c].stdin_open

\* RawEngine::recv returns once a line or the end of the stream is there.
recv_ready(c) == Len(pipe[c]) > 0 \/ ~child[c].stdout_open

\* RawEngine::recv: Ok(Some(remark)), Ok(None) at the end of the stream, or
\* Err(InvalidMessage) for a line that does not parse.
recv(c) ==
    IF Len(pipe[c]) = 0 THEN [kind |-> "Closed"]
    ELSE IF Head(pipe[c]) = Garbage
         THEN [kind |-> "Err", error |-> InvalidMessage(Head(pipe[c]))]
         ELSE [kind |-> "Remark", remark |-> Head(pipe[c])]

\* The child writes a line.  It writes a bestmove only in answer to a
\* search; any other line it may write at any time.
ChildWrite(c, line) ==
    /\ child[c].stdout_open
    /\ Len(pipe[c]) < MaxPipe
    /\ pipe' = [pipe EXCEPT ![c] = Append(@, line)]
    /\ IF line.type = "BestMove"
       THEN /\ child[c].answered < child[c].gos
            /\ child' = [child EXCEPT ![c].answered = @ + 1]
            /\ UNCHANGED written
       ELSE /\ written[c] < MaxRemarks
            /\ written' = [written EXCEPT ![c] = @ + 1]
            /\ UNCHANGED child
    /\ UNCHANGED <<options, stdin, stream, item, recvd, yielded, last_call>>

\* The child closes its stdout, or exits and closes both pipes.
ChildClose(c, how) ==
    /\ child[c].stdout_open
    /\ child' = [child EXCEPT ![c].stdout_open = FALSE,
                              ![c].stdin_open = @ /\ how = "stdout"]
    /\ UNCHANGED <<options, stdin, pipe, stream, item, recvd, yielded,
                   last_call, written>>

---------------------------------------------------------------------------
(* Engine::analyze and its stream (engine/mod.rs).                         *)

EvInfo(info) == [type |-> "Info", info |-> info]
EvBestMove(mv) == [type |-> "BestMove", mv |-> mv]
EvEngineError(err) == [type |-> "EngineError", error |-> err]

ItemOk(ev) == [kind |-> "Ok", event |-> ev]
ItemErr(err) == [kind |-> "Err", error |-> err]
ItemEnd == [kind |-> "End"]

\* requires960 taking an engine that supports Chess960 for one that has it
\* enabled.
requires960_supported(g, opts) ==
    needs_chess960(g) /\ "UCI_Chess960" \notin DOMAIN opts

\* The check analyze makes before it builds the stream.
requires960(g, opts) == needs_chess960(g) /\ ~chess960_enabled(opts)

\* on_remark without the break after the BestMove.
on_remark_no_break(b, rmk) ==
    CASE rmk.type = "Info" ->
            [events |-> <<EvInfo(rmk.info)>>, state |-> "loop"]
      [] rmk.type = "BestMove" ->
            [events |-> <<EvBestMove(canonicalize_move(b, rmk.mv, FALSE))>>,
             state |-> "loop"]
      [] OTHER ->
            [events |-> <<EvEngineError(UnexpectedRemark(rmk))>>,
             state |-> "loop"]

\* on_remark ending the stream at the bestmove without an event for it.
on_remark_best_silent(b, rmk) ==
    CASE rmk.type = "Info" ->
            [events |-> <<EvInfo(rmk.info)>>, state |-> "loop"]
      [] rmk.type = "BestMove" ->
            [events |-> <<>>, state |-> "best"]
      [] OTHER ->
            [events |-> <<EvEngineError(UnexpectedRemark(rmk))>>,
             state |-> "loop"]

\* on_remark skipping a remark it does not expect.
on_remark_skip(b, rmk) ==
    CASE rmk.type = "Info" ->
            [events |-> <<EvInfo(rmk.info)>>, state |-> "loop"]
      [] rmk.type = "BestMove" ->
            [events |-> <<EvBestMove(canonicalize_move(b, rmk.mv, FALSE))>>,
             state |-> "best"]
      [] OTHER ->
            [events |-> <<>>, state |-> "loop"]

\* One turn of the stream's loop on a received remark: the events yielded
\* and whether the loop goes on.
on_remark(b, rmk) ==
    CASE rmk.type = "Info" ->
            [events |-> <<EvInfo(rmk.info)>>, state |-> "loop"]
      [] rmk.type = "BestMove" ->
            [events |-> <<EvBestMove(canonicalize_move(b, rmk.mv, FALSE))>>,
             state |-> "best"]
      [] OTHER ->
            [events |-> <<EvEngineError(UnexpectedRemark(rmk))>>,
             state |-> "loop"]

\* Engine::analyze(game, limit): Err(Requires960), or a stream that has sent
\* nothing yet.  The stream borrows the session until it is dropped.
Analyze(c, g, limit) ==
    /\ ~borrowed(c)
    /\ IF requires960(g, options[c])
       THEN /\ last_call' = [last_call EXCEPT ![c] =
                    [result |-> "Requires960", sent |-> Len(stdin[c]), n |-> @.n + 1,
                     needs960 |-> needs_chess960(g),
                     enabled960 |-> chess960_enabled(options[c])]]
            /\ UNCHANGED <<stream, item, recvd, yielded>>
       ELSE /\ last_call' = [last_call EXCEPT ![c] =
                    [result |-> "Stream", sent |-> Len(stdin[c]), n |-> @.n + 1,
                     needs960 |-> needs_chess960(g),
                     enabled960 |-> chess960_enabled(options[c])]]
            /\ stream' = [stream EXCEPT ![c] =
                    [state |-> "new",
                     board |-> board(g),
                     position_cmd |->
                        game_to_position_message(g, chess960_enabled(options[c])),
                     go_cmd |-> analysis_limit_to_go_message(limit)]]
            /\ item' = [item EXCEPT ![c] = NoItem]
            /\ recvd' = [recvd EXCEPT ![c] = <<>>]
            /\ yielded' = [yielded EXCEPT ![c] = <<>>]
    /\ UNCHANGED <<options, stdin, pipe, child, written>>

StreamFail(c, err) ==
    /\ stream' = [stream EXCEPT ![c].state = "failed"]
    /\ item' = [item EXCEPT ![c] = ItemErr(err)]

\* The stream's first send with the go command in the position's place.
StreamSendPosition_go_first(c) ==
    /\ stream[c].state = "new"
    /\ IF send_ok(c)
       THEN /\ stdin' = [stdin EXCEPT ![c] = Append(@, stream[c].go_cmd)]
            /\ stream' = [stream EXCEPT ![c].state = "position_sent"]
            /\ UNCHANGED item
       ELSE /\ StreamFail(c, IoError)
            /\ UNCHANGED stdin
    /\ UNCHANGED <<options, pipe, child, recvd, yielded, last_call, written>>

\* self.send(&position_cmd).await?
StreamSendPosition(c) ==
    /\ stream[c].state = "new"
    /\ IF send_ok(c)
       THEN /\ stdin' = [stdin EXCEPT ![c] = Append(@, stream[c].position_cmd)]
            /\ stream' = [stream EXCEPT ![c].state = "position_sent"]
            /\ UNCHANGED item
       ELSE /\ StreamFail(c, IoError)
            /\ UNCHANGED stdin
    /\ UNCHANGED <<options, pipe, child, recvd, yielded, last_call, written>>

\* self.send(&go_cmd).await?
StreamSendGo(c) ==
    /\ stream[c].state = "position_sent"
    /\ IF send_ok(c)
       THEN /\ stdin' = [stdin EXCEPT ![c] = Append(@, stream[c].go_cmd)]
            /\ child' = [child EXCEPT ![c].gos = @ + 1]
            /\ stream' = [stream EXCEPT ![c].state = "loop"]
            /\ UNCHANGED item
       ELSE /\ StreamFail(c, IoError)
            /\ UNCHANGED <<stdin, child>>
    /\ UNCHANGED <<options, pipe, recvd, yielded, last_call, written>>

\* match self.recv().await?.ok_or(UnexpectedTermination)? { ... }
StreamRecv(c) ==
    /\ stream[c].state = "loop"
    /\ recv_ready(c)
    /\ LET got == recv(c)
       IN  CASE got.kind = "Closed" ->
                    /\ StreamFail(c, at_end_of_stream)
                    /\ UNCHANGED <<pipe, recvd, yielded>>
             [] got.kind = "Err" ->
                    /\ StreamFail(c, got.error)
                    /\ pipe' = [pipe EXCEPT ![c] = Tail(@)]
                    /\ UNCHANGED <<recvd, yielded>>
             [] got.kind = "Remark" ->
                    LET turn == on_remark(stream[c].board, got.remark)
                    IN  /\ pipe' = [pipe EXCEPT ![c] = Tail(@)]
                        /\ recvd' = [recvd EXCEPT ![c] = Append(@, got.remark)]
                        /\ yielded' = [yielded EXCEPT ![c] = @ \o turn.events]
                        /\ stream' = [stream EXCEPT ![c].state = turn.state]
                        /\ item' = [item EXCEPT ![c] =
                                IF Len(turn.events) = 0 THEN NoItem
                                ELSE ItemOk(turn.events[Len(turn.events)])]
    /\ UNCHANGED <<options, stdin, child, last_call, written>>

\* A poll after the BestMove or after an error: the stream has ended.
StreamEnd(c) ==
    /\ stream[c].state \in {"best", "failed"}
    /\ stream' = [stream EXCEPT ![c].state = "done"]
    /\ item' = [item EXCEPT ![c] = ItemEnd]
    /\ UNCHANGED <<options, stdin, pipe, child, recvd, yielded, last_call, written>>

\* The caller drops the stream; nothing is sent or read.
StreamDrop(c) ==
    /\ stream[c].state # "none"
    /\ stream' = [stream EXCEPT ![c] = NoStream]
    /\ UNCHANGED <<options, stdin, pipe, child, item, recvd, yielded,
                   last_call, written>>

---------------------------------------------------------------------------
(* Engine::new and Engine::init: the handshake (engine/mod.rs).            *)

UciOk == [type |-> "UciOk"]
IdName(n) == [type |-> "Id", field |-> "Name", value |-> n]
IdAuthor(a) == [type |-> "Id", field |-> "Author", value |-> a]
OptionRemark(name, info) == [type |-> "Option", name |-> name, info |-> info]

\* UciOptionInfo
CheckInfo(default) == [kind |-> "Check", default |-> default]
SpinInfo(default, min, max) ==
    [kind |-> "Spin", default |-> default, min |-> min, max |-> max]
ComboInfo(default, labels) ==
    [kind |-> "Combo", default |-> default, labels |-> labels]
ButtonInfo == [kind |-> "Button"]
StringInfo(default) == [kind |-> "String", default |-> default]

\* UciOptionField (Check is above, with the option tables)
Spin(value, min, max) ==
    [type |-> "Spin", value |-> value, min |-> min, max |-> max]
Combo(value, labels) == [type |-> "Combo", value |-> value, labels |-> labels]
String(value) == [type |-> "String", value |-> value]

\* BTreeMap::insert
insert(opts, name, field) ==
    [n \in DOMAIN opts \cup {name} |-> IF n = name THEN field ELSE opts[n]]

\* labels.iter().position(|l| l == &default): the first index, from 0, as
\* an Option.
position(labels, default) ==
    LET hits == {i \in 1..Len(labels) : labels[i] = default}
    IN  IF hits = {} THEN {}
        ELSE {(CHOOSE i \in hits : \A j \in hits : i <= j) - 1}

MissingName == [kind |-> "MissingName"]
MissingAuthor == [kind |-> "MissingAuthor"]
InvalidOption == [kind |-> "InvalidOption"]

\* init's locals before the loop.
InitLocals == [engine_name |-> {}, engine_author |-> {}, warnings |-> <<>>]

\* The Spin arm without the check of the declared range.
spin_field_unchecked(info) == {Spin(info.default, info.min, info.max)}

\* The Spin arm: the field to insert, or none for InvalidOption.
spin_field(info) ==
    IF info.min > info.max \/ info.default < info.min \/ info.default > info.max
    THEN {}
    ELSE {Spin(info.default, info.min, info.max)}

\* The Combo arm with a default that is no label taken for the label after
\* the last.
combo_field_unchecked(info) ==
    IF position(info.labels, info.default) = {}
    THEN {Combo(Len(info.labels), info.labels)}
    ELSE {Combo(i, info.labels) : i \in position(info.labels, info.default)}

\* The Combo arm: the field to insert, or none for InvalidOption.
combo_field(info) ==
    {Combo(i, info.labels) : i \in position(info.labels, info.default)}

\* One turn of init's loop on the remark received: what becomes of the
\* locals and of the option table, and how the loop goes on.
on_init_remark(st, opts, rmk) ==
    LET go_on(st2, opts2) == [outcome |-> "continue", st |-> st2, options |-> opts2]
        fail == [outcome |-> "InvalidOption", st |-> st, options |-> opts]
    IN  CASE rmk.type = "UciOk" ->
                [outcome |-> "break", st |-> st, options |-> opts]
          [] rmk.type = "Id" /\ rmk.field = "Name" /\ st.engine_name = {} ->
                go_on([st EXCEPT !.engine_name = {rmk.value}], opts)
          [] rmk.type = "Id" /\ rmk.field = "Author" /\ st.engine_author = {} ->
                go_on([st EXCEPT !.engine_author = {rmk.value}], opts)
          [] rmk.type = "Option" ->
               (CASE rmk.info.kind = "Check" ->
                        go_on(st, insert(opts, rmk.name, Check(rmk.info.default)))
                  [] rmk.info.kind = "Spin" ->
                        IF spin_field(rmk.info) = {} THEN fail
                        ELSE go_on(st, insert(opts, rmk.name,
                                    CHOOSE f \in spin_field(rmk.info) : TRUE))
                  [] rmk.info.kind = "Combo" ->
                        IF combo_field(rmk.info) = {} THEN fail
                        ELSE go_on(st, insert(opts, rmk.name,
                                    CHOOSE f \in combo_field(rmk.info) : TRUE))
                  [] rmk.info.kind = "Button" -> go_on(st, opts)
                  [] rmk.info.kind = "String" ->
                        go_on(st, insert(opts, rmk.name, String(rmk.info.default))))
          [] OTHER ->
                go_on([st EXCEPT !.warnings = Append(@, UnexpectedRemark(rmk))], opts)

\* missing_warnings that looks for the name only.
missing_warnings_name_only(st) ==
    IF st.engine_name = {} THEN <<MissingName>> ELSE <<>>

\* init after the loop: the warnings for what was never sent.
missing_warnings(st) ==
    (IF st.engine_name = {} THEN <<MissingName>> ELSE <<>>)
        \o (IF st.engine_author = {} THEN <<MissingAuthor>> ELSE <<>>)

\* Option::unwrap_or_default on a String
unwrap_or_default(o) == IF o = {} THEN "" ELSE CHOOSE x \in o : TRUE

\* init from the loop on, on the lines the child has written and then its
\* end of stream: Ok with the option table, or the error.
\* Ok(..), whatever it carries
Ok == [kind |-> "Ok"]

RECURSIVE init_loop(_, _, _)
init_loop(st, opts, lines) ==
    IF Len(lines) = 0
    THEN [result |-> UnexpectedTermination, options |-> opts]
    ELSE IF Head(lines) = Garbage
    THEN [result |-> InvalidMessage(Garbage), options |-> opts]
    ELSE LET turn == on_init_remark(st, opts, Head(lines))
         IN  CASE turn.outcome = "break" ->
                    [result |-> Ok, options |-> opts,
                     warnings |-> st.warnings \o missing_warnings(st),
                     name |-> unwrap_or_default(st.engine_name),
                     author |-> unwrap_or_default(st.engine_author)]
               [] turn.outcome = "InvalidOption" ->
                    [result |-> InvalidOption, options |-> opts]
               [] turn.outcome = "continue" ->
                    init_loop(turn.st, turn.options, Tail(lines))

\* Engine::new has spawned the child and not yet called init.
NoHandshake ==
    [phase |-> "new", engine_name |-> {}, engine_author |-> {},
     name |-> "", author |-> "", warnings |-> <<>>, error |-> NoError]

HsFail(err) == hs' = [hs EXCEPT !.phase = "failed", !.error = err]

\* self.send(&UciCommand::Uci).await?
HsSendUci(c) ==
    /\ hs.phase = "new"
    /\ IF send_ok(c)
       THEN /\ stdin' = [stdin EXCEPT ![c] = Append(@, [cmd |-> "Uci"])]
            /\ hs' = [hs EXCEPT !.phase = "loop"]
       ELSE /\ HsFail(IoError)
            /\ UNCHANGED stdin
    /\ UNCHANGED <<options, pipe, child, stream, item, recvd, yielded,
                   last_call, written, hs_recvd, last_set>>

\* One turn of init's loop; after UciOk init returns and Engine::new with it.
HsRecv(c) ==
    /\ hs.phase = "loop"
    /\ recv_ready(c)
    /\ LET got == recv(c)
       IN  CASE got.kind = "Closed" ->
                    /\ HsFail(at_end_of_stream)
                    /\ UNCHANGED <<pipe, options, hs_recvd>>
             [] got.kind = "Err" ->
                    /\ HsFail(got.error)
                    /\ pipe' = [pipe EXCEPT ![c] = Tail(@)]
                    /\ UNCHANGED <<options, hs_recvd>>
             [] got.kind = "Remark" ->
                    LET st == [engine_name |-> hs.engine_name,
                               engine_author |-> hs.engine_author,
                               warnings |-> hs.warnings]
                        turn == on_init_remark(st, options[c], got.remark)
                    IN  /\ pipe' = [pipe EXCEPT ![c] = Tail(@)]
                        /\ hs_recvd' = Append(hs_recvd, got.remark)
                        /\ options' = [options EXCEPT ![c] = turn.options]
                        /\ hs' =
                            CASE turn.outcome = "continue" ->
                                    [hs EXCEPT !.engine_name = turn.st.engine_name,
                                               !.engine_author = turn.st.engine_author,
                                               !.warnings = turn.st.warnings]
                              [] turn.outcome = "InvalidOption" ->
                                    [hs EXCEPT !.phase = "failed",
                                               !.error = InvalidOption]
                              [] turn.outcome = "break" ->
                                    [hs EXCEPT
                                        !.phase = "open",
                                        !.warnings = st.warnings \o missing_warnings(st),
                                        !.name = unwrap_or_default(st.engine_name),
                                        !.author = unwrap_or_default(st.engine_author)]
    /\ UNCHANGED <<stdin, child, stream, item, recvd, yielded, last_call,
                   written, last_set>>

---------------------------------------------------------------------------
(* Engine::set_option (engine/mod.rs).                                     *)

\* UciOptionValue
CheckValue(b) == [type |-> "Check", value |-> b]
SpinValue(n) == [type |-> "Spin", value |-> n]
ComboValue(i) == [type |-> "Combo", value |-> i]
StringValue(str) == [type |-> "String", value |-> str]

\* SetOptionError
NoSuchOption == [kind |-> "NoSuchOption"]
TypeMismatch == [kind |-> "TypeMismatch"]
OutOfRange == [kind |-> "OutOfRange"]

Digit(d) ==
    CASE d = 0 -> "0" [] d = 1 -> "1" [] d = 2 -> "2" [] d = 3 -> "3"
      [] d = 4 -> "4" [] d = 5 -> "5" [] d = 6 -> "6" [] d = 7 -> "7"
      [] d = 8 -> "8" [] d = 9 -> "9"

\* format!("{}", n) for an i64
RECURSIVE format_i64(_)
format_i64(n) ==
    IF n < 0 THEN "-" \o format_i64(-n)
    ELSE IF n < 10 THEN Digit(n)
    ELSE format_i64(n \div 10) \o Digit(n % 10)

\* format!("{}", b) for a bool
format_bool(b) == IF b THEN "true" ELSE "false"

\* set_option has not been called.
NoSet == [n |-> 0, result |-> [kind |-> "None"]]

\* UciCommand::SetOption { name, value: Some(value) }
SetOptionCmd(name, text) == [cmd |-> "SetOption", name |-> name, value |-> {text}]

\* What a call comes to before its send: an error, or the text to send and
\* the field to store once it is sent.
SetPlan(text, field) == [result |-> Ok, text |-> text, field |-> field]
SetErr(err) == [result |-> err]

\* set_option without the Spin arm's range check.
set_option_unranged(opts, name, value) ==
    IF name \notin DOMAIN opts THEN SetErr(NoSuchOption)
    ELSE LET field == opts[name]
             new == value.value
         IN  CASE field.type = "Check" /\ value.type = "Check" ->
                    SetPlan(format_bool(new), [field EXCEPT !.value = new])
               [] field.type = "Spin" /\ value.type = "Spin" ->
                    SetPlan(format_i64(new), [field EXCEPT !.value = new])
               [] field.type = "Combo" /\ value.type = "Combo" ->
                    IF new >= Len(field.labels) THEN SetErr(OutOfRange)
                    ELSE SetPlan(field.labels[new + 1], [field EXCEPT !.value = new])
               [] field.type = "String" /\ value.type = "String" ->
                    SetPlan(new, [field EXCEPT !.value = new])
               [] OTHER -> SetErr(TypeMismatch)

\* set_option sending the index of a Combo for its label.
set_option_combo_index(opts, name, value) ==
    IF name \notin DOMAIN opts THEN SetErr(NoSuchOption)
    ELSE LET field == opts[name]
             new == value.value
         IN  CASE field.type = "Check" /\ value.type = "Check" ->
                    SetPlan(format_bool(new), [field EXCEPT !.value = new])
               [] field.type = "Spin" /\ value.type = "Spin" ->
                    IF new < field.min \/ new > field.max THEN SetErr(OutOfRange)
                    ELSE SetPlan(format_i64(new), [field EXCEPT !.value = new])
               [] field.type = "Combo" /\ value.type = "Combo" ->
                    IF new >= Len(field.labels) THEN SetErr(OutOfRange)
                    ELSE SetPlan(format_i64(new), [field EXCEPT !.value = new])
               [] field.type = "String" /\ value.type = "String" ->
                    SetPlan(new, [field EXCEPT !.value = new])
               [] OTHER -> SetErr(TypeMismatch)

\* Engine::set_option up to its send: the lookup, the match on the field
\* and the value, and the range checks.
set_option(opts, name, value) ==
    IF name \notin DOMAIN opts THEN SetErr(NoSuchOption)
    ELSE LET field == opts[name]
             new == value.value
         IN  CASE field.type = "Check" /\ value.type = "Check" ->
                    SetPlan(format_bool(new), [field EXCEPT !.value = new])
               [] field.type = "Spin" /\ value.type = "Spin" ->
                    IF new < field.min \/ new > field.max THEN SetErr(OutOfRange)
                    ELSE SetPlan(format_i64(new), [field EXCEPT !.value = new])
               [] field.type = "Combo" /\ value.type = "Combo" ->
                    IF new >= Len(field.labels) THEN SetErr(OutOfRange)
                    ELSE SetPlan(field.labels[new + 1], [field EXCEPT !.value = new])
               [] field.type = "String" /\ value.type = "String" ->
                    SetPlan(new, [field EXCEPT !.value = new])
               [] OTHER -> SetErr(TypeMismatch)

\* set_option storing the new value before its send.
SetOption_store_first(c, name, value) ==
    LET plan == set_option(options[c], name, value)
        call == [n |-> last_set.n + 1,
                 name |-> name, value |-> value,
                 before |-> options[c], sent |-> Len(stdin[c])]
        returned(r) == [result |-> r] @@ call
    IN  /\ hs.phase = "open"
        /\ ~borrowed(c)
        /\ IF plan.result # Ok
           THEN /\ last_set' = returned(plan.result)
                /\ UNCHANGED <<options, stdin>>
           ELSE /\ options' = [options EXCEPT ![c][name] = plan.field]
                /\ IF send_ok(c)
                   THEN /\ stdin' = [stdin EXCEPT ![c] =
                                        Append(@, SetOptionCmd(name, plan.text))]
                        /\ last_set' = returned(Ok)
                   ELSE /\ last_set' = returned(IoError)
                        /\ UNCHANGED stdin
        /\ UNCHANGED <<pipe, child, stream, item, recvd, yielded, last_call,
                       written, hs, hs_recvd>>

\* Engine::set_option: the send, and the store after it.
SetOption(c, name, value) ==
    LET plan == set_option(options[c], name, value)
        call == [n |-> last_set.n + 1,
                 name |-> name, value |-> value,
                 before |-> options[c], sent |-> Len(stdin[c])]
        returned(r) == [result |-> r] @@ call
    IN  /\ hs.phase = "open"
        /\ ~borrowed(c)
        /\ IF plan.result # Ok
           THEN /\ last_set' = returned(plan.result)
                /\ UNCHANGED <<options, stdin>>
           ELSE IF send_ok(c)
           THEN /\ stdin' = [stdin EXCEPT ![c] =
                                Append(@, SetOptionCmd(name, plan.text))]
                /\ options' = [options EXCEPT ![c][name] = plan.field]
                /\ last_set' = returned(Ok)
           ELSE /\ last_set' = returned(IoError)
                /\ UNCHANGED <<options, stdin>>
        /\ UNCHANGED <<pipe, child, stream, item, recvd, yielded, last_call,
                       written, hs, hs_recvd>>

---------------------------------------------------------------------------
(* EngineMatch::run (engine_match.rs).                                     *)

\* initial_result without the look at the starting status.
initial_result_unread(g) == {}

\* The match result before the first move (an Option<Option<Color>>).
initial_result(g) ==
    CASE status(g) = "Won" -> {Not(side_to_move(board(g)))}
      [] status(g) = "Drawn" -> {None}
      [] status(g) = "Ongoing" -> {}

\* result_after_move without the flag fall.
result_after_move_no_flag(g, stm, timed_out) ==
    CASE status(g) = "Won" -> {stm}
      [] status(g) = "Drawn" -> {None}
      [] status(g) = "Ongoing" -> {}

\* result_after_move reading the clock before the board.
result_after_move_clock_first(g, stm, timed_out) ==
    IF timed_out THEN {Not(stm)}
    ELSE CASE status(g) = "Won" -> {stm}
           [] status(g) = "Drawn" -> {None}
           [] status(g) = "Ongoing" -> {}

\* The match result after stm has moved.
result_after_move(g, stm, timed_out) ==
    CASE status(g) = "Won" -> {stm}
      [] status(g) = "Drawn" -> {None}
      [] status(g) = "Ongoing" /\ timed_out -> {Not(stm)}
      [] status(g) = "Ongoing" /\ ~timed_out -> {}

\* The time limit of the side to move's search, from the two clocks.
analysis_time_limit(stm, wc, bc) ==
    LET white_tc == as_tc(wc)
        black_tc == as_tc(bc)
        clock == IF stm = "White" THEN wc ELSE bc
    IN  CASE clock.kind = "Infinite" -> [kind |-> "Infinite"]
          [] clock.kind = "MoveTime" ->
                [kind |-> "MoveTime", move_time |-> clock.move_time]
          [] clock.kind = "Clock" ->
                [kind |-> "TimeLeft",
                 white_time |-> {c.time : c \in white_tc},
                 black_time |-> {c.time : c \in black_tc},
                 white_increment |-> {c.increment : c \in white_tc},
                 black_increment |-> {c.increment : c \in black_tc},
                 moves_to_go |-> {}]

\* AnalysisLimit { search_limit, time_limit } of the side to move's search
analysis_limit(stm, cfg, wc, bc) ==
    [search_limit |-> cfg[stm].search_limit,
     time_limit |-> {analysis_time_limit(stm, wc, bc)}]

EvAnalysis(engine, ev) ==
    [type |-> "EngineAnalysisEvent", engine |-> engine, event |-> ev]
EvGameOver(winner) == [type |-> "GameOver", winner |-> winner]

\* An item's error let pass.
propagates_never(it) == FALSE

\* `event?` on an item of the analysis stream: an Err ends run with it.
propagates(it) == it.kind = "Err"

Sent == [c \in Color |-> Len(stdin[c])]
Calls == [c \in Color |-> last_call[c].n]

---------------------------------------------------------------------------
(* The parts of the state a specification does not use rest.               *)

IdleSess ==
    /\ options = [c \in Color |-> NoOptions]
    /\ stdin = [c \in Color |-> <<>>]
    /\ pipe = [c \in Color |-> <<>>]
    /\ child = [c \in Color |-> ChildUp]
    /\ stream = [c \in Color |-> NoStream]
    /\ item = [c \in Color |-> NoItem]
    /\ recvd = [c \in Color |-> <<>>]
    /\ yielded = [c \in Color |-> <<>>]
    /\ last_call = [c \in Color |-> NoCall]
    /\ written = [c \in Color |-> 0]

\* An engine whose construction is over: it is open for analyses.
Opened ==
    [phase |-> "open", engine_name |-> {}, engine_author |-> {},
     name |-> "", author |-> "", warnings |-> <<>>, error |-> NoError]
\* No move has been played.
NoMove == [n |-> 0]

IdleHs ==
    /\ hs = Opened
    /\ hs_recvd = <<>>
    /\ last_set = NoSet

IdleGame ==
    /\ cv_chess960 = FALSE
    /\ cv_last = NoMove

NoPly == [n |-> 0]

IdleMatch ==
    /\ config = [c \in Color |-> [search_limit |-> {}, clock |-> Infinite]]
    /\ game = ChessGame_new(StdBoard(0))
    /\ white_clock = Infinite
    /\ black_clock = Infinite
    /\ match_result = {}
    /\ pc = "idle"
    /\ best_move = {}
    /\ events = <<>>
    /\ event_move = <<>>
    /\ error = None
    /\ plies = 0
    /\ last_ply = NoPly
    /\ failed_at = NoPly

IdleClock ==
    /\ clk = Infinite
    /\ clk_prev = Infinite
    /\ clk_elapsed = 0
    /\ clk_out = "none"
    /\ clk_updates = 0

---------------------------------------------------------------------------
(* SpecClock: ChessClockState::update applied to every clock state.        *)

InitClock ==
    /\ clk \in ChessClockState
    /\ clk_prev = clk
    /\ clk_elapsed = 0
    /\ clk_out = "none"
    /\ clk_updates = 0
    /\ IdleSess
    /\ IdleMatch
    /\ IdleHs
    /\ IdleGame

\* clock.update(elapsed); a panic ends the run
ClockUpdate ==
    \E elapsed \in Duration :
        /\ clk_updates < MaxUpdates
        /\ clk_out # "panic"
        /\ LET r == update(clk, elapsed)
           IN  /\ clk' = r.clock
               /\ clk_out' = IF r.panicked THEN "panic"
                             ELSE IF r.timed_out THEN "timed_out" ELSE "in_time"
        /\ clk_prev' = clk
        /\ clk_elapsed' = elapsed
        /\ clk_updates' = clk_updates + 1
        /\ UNCHANGED <<sessVars, matchVars, hsVars, gameVars>>

NextClock == ClockUpdate

SpecClock == InitClock /\ [][NextClock]_vars

Updated == clk_updates > 0

\* C6: a Clock(t, i) updated with elapsed e has max(0, t + i - e) left, its
\* increment unchanged, and update returns timed_out exactly when nothing is
\* left.  The statement as claimed: update returns for every such clock.
C6_ClockRemaining ==
    (Updated /\ clk_prev.kind = "Clock") =>
        /\ clk_out \in {"timed_out", "in_time"}
        /\ clk.kind = "Clock"
        /\ clk.time = saturating_sub(clk_prev.time + clk_prev.increment, clk_elapsed)
        /\ clk.increment = clk_prev.increment
        /\ (clk_out = "timed_out") <=> (clk.time = 0)

\* C7: updating a MoveTime(d) clock reports timed_out exactly when the
\* elapsed time exceeds d and leaves the clock as it was; updating an
\* Infinite clock never reports timed_out and leaves it as it was.
C7_MoveTimeInfinite ==
    /\ (Updated /\ clk_prev.kind = "MoveTime") =>
          /\ clk_out \in {"timed_out", "in_time"}
          /\ (clk_out = "timed_out") <=> (clk_elapsed > clk_prev.move_time)
          /\ clk = clk_prev
    /\ (Updated /\ clk_prev.kind = "Infinite") =>
          /\ clk_out = "in_time"
          /\ clk = clk_prev

\* A MoveTime clock updated a second time, with exactly its move time
\* elapsed, has not timed out.
C7_Witness ==
    /\ clk_updates = MaxUpdates
    /\ clk_prev.kind = "MoveTime"
    /\ clk_prev.move_time > 0
    /\ clk_elapsed = clk_prev.move_time
    /\ clk_out = "in_time"

---------------------------------------------------------------------------
(* SpecSession: a caller of one session (White's) that starts analyses,    *)
(* polls their streams and drops them, beside the session's child.         *)

S == "White"

AnalysisLimit ==
    {[search_limit |-> {}, time_limit |-> {[kind |-> "MoveTime", move_time |-> DurationMax]}]}

\* The moves the session's child answers with.
SessionMoves == {Mv(Sq(FileE, 1), Sq(FileG, 1)), W_h1g1}

\* The games a session is asked about: one any engine can be sent, and one
\* that needs Chess960.
SessionGames == {ChessGame_new(StdBoard(0)), ChessGame_new(FrcBoard)}

InitSession ==
    /\ options \in {[c \in Color |-> IF c = S THEN t ELSE NoOptions] :
                        t \in {NoOptions, Chess960Table(FALSE), Chess960Table(TRUE)}}
    /\ stdin = [c \in Color |-> <<>>]
    /\ pipe = [c \in Color |-> <<>>]
    /\ child = [c \in Color |-> ChildUp]
    /\ stream = [c \in Color |-> NoStream]
    /\ item = [c \in Color |-> NoItem]
    /\ recvd = [c \in Color |-> <<>>]
    /\ yielded = [c \in Color |-> <<>>]
    /\ last_call = [c \in Color |-> NoCall]
    /\ written = [c \in Color |-> 0]
    /\ IdleMatch
    /\ IdleClock
    /\ IdleHs
    /\ IdleGame

\* The session's caller asks for an analysis of a game.
SessAnalyze ==
    \E g \in SessionGames, limit \in AnalysisLimit :
        /\ last_call[S].n < MaxAnalyses
        /\ Analyze(S, g, limit)
        /\ UNCHANGED <<matchVars, clockVars, hsVars, gameVars>>

SessSendPosition == StreamSendPosition(S) /\ UNCHANGED <<matchVars, clockVars, hsVars, gameVars>>

SessSendGo == StreamSendGo(S) /\ UNCHANGED <<matchVars, clockVars, hsVars, gameVars>>

SessRecv == StreamRecv(S) /\ UNCHANGED <<matchVars, clockVars, hsVars, gameVars>>

SessEnd == StreamEnd(S) /\ UNCHANGED <<matchVars, clockVars, hsVars, gameVars>>

SessDrop == StreamDrop(S) /\ UNCHANGED <<matchVars, clockVars, hsVars, gameVars>>

SessChildWrite ==
    \E line \in Line(SessionMoves) :
        ChildWrite(S, line) /\ UNCHANGED <<matchVars, clockVars, hsVars, gameVars>>

SessChildClose ==
    \E how \in {"stdout", "exit"} :
        ChildClose(S, how) /\ UNCHANGED <<matchVars, clockVars, hsVars, gameVars>>

NextSession ==
    \/ SessAnalyze
    \/ SessSendPosition
    \/ SessSendGo
    \/ SessRecv
    \/ SessEnd
    \/ SessDrop
    \/ SessChildWrite
    \/ SessChildClose

SpecSession == InitSession /\ [][NextSession]_vars

IsInfo(x) == x.type = "Info"
IsBestMove(x) == x.type = "BestMove"

\* C8: an analysis stream yields one Info event per Info remark received,
\* in arrival order; the first BestMove remark yields the one BestMove
\* event, which is the last event, and the stream has ended: it is the last
\* remark the stream received.
C8_InfoThenBestMove ==
    \A c \in Color :
        LET r == recvd[c]
            y == yielded[c]
            ri == SelectSeq(r, IsInfo)
            yi == SelectSeq(y, IsInfo)
        IN  /\ Len(yi) = Len(ri)
            /\ \A i \in 1 .. Len(ri) : yi[i] = EvInfo(ri[i].info)
            /\ Len(SelectSeq(y, IsBestMove)) = Len(SelectSeq(r, IsBestMove))
            /\ \A i \in 1 .. Len(r) :
                  IsBestMove(r[i]) =>
                      /\ i = Len(r)
                      /\ Len(SelectSeq(y, IsBestMove)) = 1
                      /\ IsBestMove(y[Len(y)])
                      /\ stream[c].state \in {"best", "done", "none"}

\* Two Info remarks and a BestMove were received, the stream has ended, and
\* a line the child wrote later lies unread.
C8_Witness ==
    /\ Len(recvd[S]) = 3
    /\ recvd[S][1] = InfoRemark(2)
    /\ recvd[S][2] = InfoRemark(1)
    /\ IsBestMove(recvd[S][3])
    /\ yielded[S][1] = EvInfo(2)
    /\ stream[S].state = "done"
    /\ Len(pipe[S]) > 0

\* C9: analyze on a game that needs Chess960, on a session that has not
\* enabled it, returns Requires960: no stream is returned, and no position
\* or go command is sent for the call.
C9_Requires960 ==
    \A c \in Color :
        (last_call[c].needs960 /\ ~last_call[c].enabled960) =>
            /\ last_call[c].result = "Requires960"
            /\ stream[c].state = "none"
            /\ \A i \in last_call[c].sent + 1 .. Len(stdin[c]) :
                  stdin[c][i].cmd \notin {"Position", "Go"}

\* A second analyze call failed with Requires960 after a first one had sent
\* its commands, on a session that lists UCI_Chess960 but has it off.
C9_Witness ==
    /\ last_call[S].result = "Requires960"
    /\ last_call[S].n = 2
    /\ "UCI_Chess960" \in DOMAIN options[S]
    /\ Len(stdin[S]) = 2

\* C10: every remark an analysis receives that is neither Info nor BestMove
\* is yielded as the event EngineError(UnexpectedRemark(remark)), in its
\* place among the events, and after yielding it the stream still reads.
C10_UnexpectedRemarkSurfaced ==
    \A c \in Color :
        /\ Len(yielded[c]) = Len(recvd[c])
        /\ \A i \in 1 .. Len(recvd[c]) :
              (~IsInfo(recvd[c][i]) /\ ~IsBestMove(recvd[c][i])) =>
                  yielded[c][i] = EvEngineError(UnexpectedRemark(recvd[c][i]))
        /\ (item[c].kind = "Ok" /\ item[c].event.type = "EngineError") =>
              stream[c].state \in {"loop", "none"}

\* An unexpected remark came first; the stream went on to an Info and the
\* BestMove.
C10_Witness ==
    /\ Len(recvd[S]) = 3
    /\ recvd[S][1] = ReadyOk
    /\ yielded[S][1] = EvEngineError(UnexpectedRemark(ReadyOk))
    /\ IsInfo(recvd[S][2])
    /\ IsBestMove(yielded[S][3])

\* C19: the BestMove event of an analysis carries
\* canonicalize(board, mv, chess960) for the move mv the engine wrote, the
\* board the analysis was asked about and the chess960 flag read when
\* analyze was called; with Chess960 enabled it carries mv unchanged.
C19_BestMoveCanonical ==
    (stream[S].state # "none" /\ Len(SelectSeq(yielded[S], IsBestMove)) > 0) =>
        LET ev == SelectSeq(yielded[S], IsBestMove)[1]
            rmk == SelectSeq(recvd[S], IsBestMove)[1]
            chess960 == last_call[S].enabled960
        IN  /\ ev.mv = canonicalize_move(stream[S].board, rmk.mv, chess960)
            /\ chess960 => ev.mv = rmk.mv

\* The commands the analysis under way has sent.
C21_Sent == SubSeq(stdin[S], last_call[S].sent + 1, Len(stdin[S]))

\* An analysis sends its position command, then its go command, and reads
\* remarks only after both.
C21_PositionThenGo ==
    stream[S] # NoStream =>
        LET both == <<stream[S].position_cmd, stream[S].go_cmd>>
        IN  /\ Len(C21_Sent) <= 2
            /\ C21_Sent = SubSeq(both, 1, Len(C21_Sent))
            /\ both[1].cmd = "Position" /\ both[2].cmd = "Go"
            /\ stream[S].state = "new" => C21_Sent = <<>>
            /\ stream[S].state = "position_sent" => C21_Sent = <<both[1]>>
            /\ stream[S].state \in {"loop", "best"} => C21_Sent = both
            /\ Len(recvd[S]) > 0 => C21_Sent = both

\* The child's stdin only grows at its end, and the remark surfaced is the
\* oldest line the child wrote that has not been read, which is then gone
\* from the pipe and no other is.
C21_Fifo ==
    /\ stdin'[S] # stdin[S] =>
          /\ Len(stdin'[S]) = Len(stdin[S]) + 1
          /\ SubSeq(stdin'[S], 1, Len(stdin[S])) = stdin[S]
    /\ Len(recvd'[S]) = Len(recvd[S]) + 1 =>
          /\ Len(pipe[S]) > 0
          /\ recvd'[S] = Append(recvd[S], Head(pipe[S]))
          /\ pipe'[S] = Tail(pipe[S])
    /\ (pipe'[S] # pipe[S] /\ Len(pipe'[S]) < Len(pipe[S])) =>
          /\ pipe'[S] = Tail(pipe[S])
          /\ stream[S].state = "loop"

C24_Consumed ==
    child[S].answered
        - Cardinality({i \in 1 .. Len(pipe[S]) : IsBestMove(pipe[S][i])})

\* The go commands sent on the session so far.
C24_Gos == Cardinality({i \in 1 .. Len(stdin[S]) : stdin[S][i].cmd = "Go"})

\* C24: with an engine that answers each go with one bestmove, the bestmove
\* of every go sent on a session has been consumed from the session before
\* the next position or go is sent on it, whatever the analyze calls and
\* stream drops: at most one go is unanswered-or-unread, and none when a
\* position command has just been sent.
C24_GoThenBestMove ==
    /\ C24_Gos - C24_Consumed <= 1
    /\ stream[S].state = "position_sent" => C24_Gos = C24_Consumed

\* C28: the BestMove an analysis stream yields is the engine's reply to
\* that stream's own go, the last go sent on the session: when a stream has
\* yielded its BestMove, as many bestmoves have been read from the session
\* as go commands were sent on it, so none read is an earlier search's.
C28_OwnBestMove ==
    stream[S].state = "best" => C24_Consumed = C24_Gos

---------------------------------------------------------------------------
(* SpecMatch: EngineMatch::run beside the two children.                    *)

\* The two sides' clocks, White's first.
MatchClocks ==
    {<<Infinite, Infinite>>,
     <<MoveTime(1), Clock(2, 1)>>,
     <<Clock(2, 1), MoveTime(1)>>,
     <<Clock(DurationMax, 1), Clock(2, 1)>>}

\* The lines a child writes during a match.
MatchLine ==
    {InfoRemark(1), ReadyOk, Garbage} \cup {BestMoveRemark(mv) : mv \in WireMoves}

MatchGames ==
    {ChessGame_new(StdBoard(0)),
     ChessGame_new(StdBoard(HalfmoveLimit - 1)),
     ChessGame_new(StdBoard(HalfmoveLimit)),
     ChessGame_new(WonBoard),
     RepGame}

\* The wall-clock time an analysis may take.
Elapsed == {1, 3}

InitMatch ==
    /\ options \in {[c \in Color |-> t] : t \in {NoOptions, Chess960Table(TRUE)}}
    /\ stdin = [c \in Color |-> <<>>]
    /\ pipe = [c \in Color |-> <<>>]
    /\ child = [c \in Color |-> ChildUp]
    /\ stream = [c \in Color |-> NoStream]
    /\ item = [c \in Color |-> NoItem]
    /\ recvd = [c \in Color |-> <<>>]
    /\ yielded = [c \in Color |-> <<>>]
    /\ last_call = [c \in Color |-> NoCall]
    /\ written = [c \in Color |-> 0]
    /\ config \in {[c \in Color |->
                        [search_limit |-> {},
                         clock |-> IF c = "White" THEN wb[1] ELSE wb[2]]] :
                    wb \in MatchClocks}
    /\ game \in MatchGames
    /\ white_clock = Infinite
    /\ black_clock = Infinite
    /\ match_result = {}
    /\ pc = "start"
    /\ best_move = {}
    /\ events = <<>>
    /\ event_move = <<>>
    /\ error = None
    /\ plies = 0
    /\ last_ply = NoPly
    /\ failed_at = NoPly
    /\ IdleClock
    /\ IdleHs
    /\ IdleGame

\* The engine asked is always the first of the two.
Stm_first == "White"

\* let stm = self.game.board().side_to_move()
Stm == side_to_move(board(game))

\* The clocks are cloned and the starting game's status is read.
MatchBegin ==
    /\ pc = "start"
    /\ white_clock' = config["White"].clock
    /\ black_clock' = config["Black"].clock
    /\ match_result' = initial_result(game)
    /\ pc' = "loop"
    /\ UNCHANGED <<config, game, best_move, events, event_move, error, plies,
                   last_ply, failed_at, sessVars, clockVars, hsVars, gameVars>>

\* The loop goes round: the side to move's engine is asked for an analysis.
\* run takes what analyze returns for the stream, so the games it is given
\* are games the engine can be sent.
MatchAnalyze ==
    /\ pc = "loop"
    /\ match_result = {}
    /\ plies < MaxPlies
    /\ ~requires960(game, options[Stm])
    /\ Analyze(Stm, game, analysis_limit(Stm, config, white_clock, black_clock))
    /\ best_move' = {}
    /\ pc' = "drain"
    /\ UNCHANGED <<config, game, white_clock, black_clock, match_result, events,
                   event_move, error, plies, last_ply, failed_at, clockVars, hsVars, gameVars>>

\* What run does with the item a poll of the analysis stream returned.
MatchOnItem ==
    LET it == item'[Stm]
    IN  IF stream'[Stm].state = "failed" /\ propagates(it)
        THEN /\ pc' = "failed"
             /\ error' = it.error
             /\ failed_at' = [n |-> plies, sent |-> Sent']
             /\ UNCHANGED <<best_move, events, event_move>>
        ELSE /\ UNCHANGED <<pc, error, failed_at>>
             /\ IF it.kind = "Ok" /\ stream'[Stm].state \in {"loop", "best"}
                   /\ Len(yielded'[Stm]) > Len(yielded[Stm])
                THEN /\ best_move' = IF it.event.type = "BestMove"
                                     THEN {it.event.mv} ELSE best_move
                     /\ events' = Append(events, EvAnalysis(Stm, it.event))
                     /\ event_move' = Append(event_move, Len(game.stack) + 1)
                ELSE UNCHANGED <<best_move, events, event_move>>

MatchFrame ==
    UNCHANGED <<config, game, white_clock, black_clock, match_result, plies,
                last_ply, clockVars, hsVars, gameVars>>

\* analysis.next().await: the stream sends the position command.
MatchSendPosition ==
    /\ pc = "drain"
    /\ StreamSendPosition(Stm)
    /\ MatchOnItem
    /\ MatchFrame

\* analysis.next().await goes on: the stream sends the go command.
MatchSendGo ==
    /\ pc = "drain"
    /\ StreamSendGo(Stm)
    /\ MatchOnItem
    /\ MatchFrame

\* analysis.next().await returns an item; an event is yielded again, tagged
\* with the engine.
MatchRecv ==
    /\ pc = "drain"
    /\ StreamRecv(Stm)
    /\ MatchOnItem
    /\ MatchFrame

\* analysis.next().await returns None: the clock is updated, the best move
\* played and the game's status read.
MatchFinishMove ==
    \E elapsed \in Elapsed :
        LET stm == Stm
            upd == update(IF stm = "White" THEN white_clock ELSE black_clock,
                          elapsed)
        IN  /\ pc = "drain"
            /\ stream[stm].state \in {"best", "failed"}
            /\ stream' = [stream EXCEPT ![stm] = NoStream]
            /\ item' = [item EXCEPT ![stm] = ItemEnd]
            /\ IF upd.panicked
               THEN /\ pc' = "panicked"
                    /\ error' = "overflow when adding durations"
                    /\ UNCHANGED <<white_clock, black_clock, game, match_result,
                                   plies, last_ply>>
               ELSE /\ white_clock' = IF stm = "White" THEN upd.clock ELSE white_clock
                    /\ black_clock' = IF stm = "Black" THEN upd.clock ELSE black_clock
                    /\ IF best_move = {}
                       THEN /\ pc' = "panicked"
                            /\ error' = "unwrap on None"
                            /\ UNCHANGED <<game, match_result, plies, last_ply>>
                       ELSE LET mv == CHOOSE m \in best_move : TRUE
                            IN  IF play_panics(game, mv)
                                THEN /\ pc' = "panicked"
                                     /\ error' = "illegal move"
                                     /\ UNCHANGED <<game, match_result, plies,
                                                    last_ply>>
                                ELSE /\ game' = play(game, mv)
                                     /\ match_result' =
                                          result_after_move(game', stm, upd.timed_out)
                                     /\ plies' = plies + 1
                                     /\ last_ply' =
                                          [n |-> plies + 1, stm |-> stm,
                                           status |-> status(game'),
                                           timed_out |-> upd.timed_out,
                                           sent |-> Sent, calls |-> Calls]
                                     /\ pc' = "loop"
                                     /\ UNCHANGED error
            /\ UNCHANGED <<config, best_move, events, event_move, failed_at,
                           options, stdin,
                           pipe, child, recvd, yielded, last_call, written,
                           clockVars, hsVars, gameVars>>

\* GameOver yielded without leaving the loop.
MatchGameOver_in_loop ==
    /\ pc = "loop"
    /\ match_result # {}
    /\ events' = Append(events, EvGameOver(CHOOSE w \in match_result : TRUE))
    /\ event_move' = Append(event_move, Len(game.stack) + 1)
    /\ UNCHANGED <<config, game, white_clock, black_clock, match_result, pc,
                   best_move, error, plies, last_ply, failed_at, sessVars,
                   clockVars, hsVars, gameVars>>

\* The loop is left: GameOver is yielded and run ends.
MatchGameOver ==
    /\ pc = "loop"
    /\ match_result # {}
    /\ events' = Append(events, EvGameOver(CHOOSE w \in match_result : TRUE))
    /\ event_move' = Append(event_move, Len(game.stack) + 1)
    /\ pc' = "done"
    /\ UNCHANGED <<config, game, white_clock, black_clock, match_result,
                   best_move, error, plies, last_ply, failed_at, sessVars,
                   clockVars, hsVars, gameVars>>

\* The engine that is searching writes a line.
MatchChildWrite ==
    \E line \in MatchLine :
        /\ pc = "drain"
        /\ written["White"] + written["Black"] < MaxRemarks
        /\ ChildWrite(Stm, line)
        /\ UNCHANGED <<matchVars, clockVars, hsVars, gameVars>>

\* The engine that is searching closes its stdout, or exits.
MatchChildClose ==
    \E how \in {"stdout", "exit"} :
        /\ pc = "drain"
        /\ ChildClose(Stm, how)
        /\ UNCHANGED <<matchVars, clockVars, hsVars, gameVars>>

NextMatch ==
    \/ MatchBegin
    \/ MatchAnalyze
    \/ MatchSendPosition
    \/ MatchSendGo
    \/ MatchRecv
    \/ MatchFinishMove
    \/ MatchGameOver
    \/ MatchChildWrite
    \/ MatchChildClose

SpecMatch == InitMatch /\ [][NextMatch]_vars

---------------------------------------------------------------------------
(* The match driver's claims, under SpecMatch.                             *)

IsAnalysis(e) == e.type = "EngineAnalysisEvent"
IsGameOver(e) == e.type = "GameOver"
LastEvent == events[Len(events)]
Quiet == \A c \in Color : stream[c] = NoStream

\* C1: the events of a match come in move order: no event yielded at an
\* earlier move follows an event yielded at a later one, the analysis
\* events of one move carry one engine, every move has at most one BestMove,
\* and the analysis under way is of the position the game stands at.  GameOver is yielded only as the last event, when run ends, and
\* a run that has ended without an error has yielded it, so exactly once.
C1_EventsInMoveOrder ==
    /\ Len(event_move) = Len(events)
    /\ \A i, j \in 1..Len(events) :
          i < j =>
              /\ event_move[i] <= event_move[j]
              /\ (IsAnalysis(events[i]) /\ IsAnalysis(events[j])
                    /\ event_move[i] = event_move[j])
                  => events[i].engine = events[j].engine
              /\ (IsAnalysis(events[i]) /\ IsAnalysis(events[j])
                    /\ events[i].event.type = "BestMove"
                    /\ events[j].event.type = "BestMove")
                  => event_move[i] < event_move[j]
    /\ \A i \in 1..Len(events) :
          /\ event_move[i] <= Len(game.stack) + 1
          /\ IsGameOver(events[i]) => i = Len(events) /\ pc = "done"
    /\ pc = "drain" => Len(stream[Stm].position_cmd.moves) = Len(game.stack)
    /\ pc = "done" => Len(events) > 0 /\ IsGameOver(LastEvent)

\* A match of two moves has ended: events of both moves, then GameOver.
C1_Witness ==
    /\ pc = "done"
    /\ plies = 2
    /\ \E i, j \in 1..Len(events) :
          /\ i < j
          /\ IsAnalysis(events[i]) /\ IsAnalysis(events[j])
          /\ event_move[i] < event_move[j]
    /\ IsGameOver(LastEvent)

\* C2: when the game is Ongoing after a move and the mover's clock has
\* timed out, the result is a win for the mover's opponent, run goes to
\* GameOver with that winner, and no analysis is started and no command sent
\* after the move.
C2_FlagFallLoses ==
    (last_ply.n > 0 /\ last_ply.status = "Ongoing" /\ last_ply.timed_out) =>
        /\ match_result = {Not(last_ply.stm)}
        /\ pc \in {"loop", "done"}
        /\ pc = "done" => LastEvent = EvGameOver(Not(last_ply.stm))
        /\ Quiet
        /\ Sent = last_ply.sent
        /\ Calls = last_ply.calls

\* A side has flagged in an Ongoing game and the match is over.
C2_Witness ==
    /\ last_ply.n > 0
    /\ last_ply.status = "Ongoing"
    /\ last_ply.timed_out
    /\ pc = "done"
    /\ LastEvent = EvGameOver(Not(last_ply.stm))

\* C3: the game's status goes before the clock: after a move that wins the
\* game the winner is the mover, and after a move that draws it there is no
\* winner, whether or not the mover's clock timed out on that move.
C3_StatusBeforeClock ==
    /\ (last_ply.n > 0 /\ last_ply.status = "Won") =>
          /\ match_result = {last_ply.stm}
          /\ pc \in {"loop", "done"}
          /\ pc = "done" => LastEvent = EvGameOver(last_ply.stm)
    /\ (last_ply.n > 0 /\ last_ply.status = "Drawn") =>
          /\ match_result = {None}
          /\ pc \in {"loop", "done"}
          /\ pc = "done" => LastEvent = EvGameOver(None)

\* The mover has mated with its flag down, and has been given the win.
C3_Witness ==
    /\ last_ply.n > 0
    /\ last_ply.status = "Won"
    /\ last_ply.timed_out
    /\ pc = "done"
    /\ LastEvent = EvGameOver(last_ply.stm)

\* The mover has drawn the game with its flag down.
C3_DrawnFlagged ==
    /\ last_ply.n > 0
    /\ last_ply.status = "Drawn"
    /\ last_ply.timed_out
    /\ pc = "done"

\* C4: a match whose starting game is Won or Drawn sends no command to
\* either engine and starts no analysis; its only event is GameOver, with
\* the opponent of the side to move as the winner of a Won game and no winner
\* of a Drawn one.  An analysis is under way only in an Ongoing game.
C4_FinishedStartNoAnalysis ==
    /\ (plies = 0 /\ pc # "start" /\ status(game) # "Ongoing") =>
          LET w == IF status(game) = "Won"
                   THEN Not(side_to_move(board(game))) ELSE None
          IN  /\ match_result = {w}
              /\ pc \in {"loop", "done"}
              /\ events = IF pc = "done" THEN <<EvGameOver(w)>> ELSE <<>>
              /\ Quiet
              /\ \A c \in Color : stdin[c] = <<>> /\ last_call[c] = NoCall
    /\ (pc = "drain" \/ ~Quiet) => status(game) = "Ongoing"

\* A match begun in a Won position is over.
C4_Witness ==
    /\ plies = 0
    /\ pc = "done"
    /\ status(game) = "Won"
    /\ events = <<EvGameOver(Not(side_to_move(board(game))))>>

\* A match begun in a Drawn position is over.
C4_DrawnStart ==
    /\ plies = 0
    /\ pc = "done"
    /\ status(game) = "Drawn"
    /\ events = <<EvGameOver(None)>>

\* C5, as stated: every EngineError that comes up during an analysis, be it
\* the stream's Err item or the EngineError event the stream yields, ends run
\* with that error.
C5_AnyEngineError ==
    /\ \A c \in Color :
          item[c].kind = "Err" => pc = "failed" /\ error = item[c].error
    /\ \A i \in 1..Len(events) :
          (IsAnalysis(events[i]) /\ events[i].event.type = "EngineError") =>
              pc = "failed" /\ error = events[i].event.error

\* C5: an Err item of the analysis stream (a failed write, a line that does
\* not parse, the end of the engine's output) ends run with that error: no
\* GameOver has been yielded, and after the error no move is played and no
\* command is sent.  An UnexpectedRemark is no such item: it comes as an
\* event, and run never ends with it.
C5_ErrorEndsMatch ==
    /\ \A c \in Color :
          item[c].kind = "Err" => pc = "failed" /\ error = item[c].error
    /\ pc = "failed" =>
          /\ \A i \in 1..Len(events) : ~IsGameOver(events[i])
          /\ \E c \in Color : item[c] = ItemErr(error)
          /\ error.kind \in {"IoError", "InvalidMessage", "UnexpectedTermination"}
          /\ plies = failed_at.n
          /\ Sent = failed_at.sent
    /\ \A i \in 1..Len(events) :
          (IsAnalysis(events[i]) /\ events[i].event.type = "EngineError") =>
              events[i].event.error.kind = "UnexpectedRemark"

\* The second move's analysis met the end of the engine's output.
C5_Witness ==
    /\ pc = "failed"
    /\ error = UnexpectedTermination
    /\ plies = 1
    /\ Len(events) > 0

\* A match that yielded an UnexpectedRemark event has gone on to its end.
C5_RemarkPassedOn ==
    /\ pc = "done"
    /\ \E i \in 1..Len(events) :
          IsAnalysis(events[i]) /\ events[i].event.type = "EngineError"

\* The analysis failed on a write, and on a line that does not parse.
C5_IoFailure == pc = "failed" /\ error = IoError
C5_InvalidLine == pc = "failed" /\ error = InvalidMessage(Garbage)

\* C27: a drain of an analysis stream that finishes without an error has
\* seen exactly one BestMove event, the last event of the stream: best_move
\* is set when the stream has ended, the unwrap of best_move never fails,
\* and the move played is the move of that event.
C27_BestMoveDefined ==
    /\ pc = "panicked" => error # "unwrap on None"
    /\ (pc = "drain" /\ stream[Stm].state = "best") =>
          LET y == yielded[Stm]
          IN  /\ Len(SelectSeq(y, IsBestMove)) = 1
              /\ IsBestMove(y[Len(y)])
              /\ best_move = {y[Len(y)].mv}
    /\ last_ply.n > 0 =>
          LET y == yielded[last_ply.stm]
          IN  /\ Len(SelectSeq(y, IsBestMove)) = 1
              /\ IsBestMove(y[Len(y)])
              /\ game.stack[Len(game.stack)].mv = y[Len(y)].mv

C27_Witness ==
    /\ last_ply.n = 2
    /\ pc = "loop"
    /\ Len(yielded[last_ply.stm]) = 2
    /\ IsInfo(yielded[last_ply.stm][1])
    /\ Len(game.stack) = 2

\* The side to move on the board the game's k-th move is, or will be,
\* played on.
C23_ToMove(k) ==
    side_to_move(IF k = 1 THEN game.init_pos ELSE game.stack[k - 1].board)

\* The moves of the game run has asked an analysis for: those it has played
\* and the one whose analysis is under way or has failed.
C23_Asked ==
    (Len(game.stack) - plies + 1) ..
        (Len(game.stack) + (IF pc \in {"drain", "failed", "panicked"} THEN 1 ELSE 0))

\* A go has been sent to the engine whose bestmove run has not consumed.
C23_Searching(c) ==
    Cardinality({i \in 1 .. Len(stdin[c]) : stdin[c][i].cmd = "Go"})
        > Cardinality({i \in 1 .. Len(events) :
                          /\ IsAnalysis(events[i])
                          /\ events[i].engine = c
                          /\ events[i].event.type = "BestMove"})

\* C23: each engine has been asked for exactly the analyses of the moves at
\* which its colour was to move, a stream is live only on the engine of the
\* side to move, every analysis event carries the colour that was to move
\* when it was yielded, and the two engines never both have a go out whose
\* bestmove has not been consumed.
C23_OneEngineAtATime ==
    /\ \A c \in Color :
          /\ last_call[c].n = Cardinality({k \in C23_Asked : C23_ToMove(k) = c})
          /\ stream[c] # NoStream => c = Stm /\ pc \in {"drain", "failed"}
    /\ \A i \in 1 .. Len(events) :
          IsAnalysis(events[i]) => events[i].engine = C23_ToMove(event_move[i])
    /\ ~(C23_Searching("White") /\ C23_Searching("Black"))

\* Both engines have searched and White searches again.
C23_Witness ==
    /\ plies = 2
    /\ pc = "drain"
    /\ Stm = "White"
    /\ C23_Searching("White")
    /\ ~C23_Searching("Black")
    /\ last_call["White"].n = 2
    /\ last_call["Black"].n = 1

---------------------------------------------------------------------------
(* SpecHandshake: Engine::new beside the child it has spawned.             *)

\* The lines a child writes during the handshake.
HandshakeLine ==
    {UciOk, IdName("A"), IdName("B"), IdAuthor("X"),
     OptionRemark("Hash", SpinInfo(16, 1, 64)),
     OptionRemark("Hash", SpinInfo(16, 64, 1)),
     OptionRemark("Hash", SpinInfo(0, 1, 64)),
     OptionRemark("Hash", SpinInfo(65, 1, 64)),
     OptionRemark("Style", ComboInfo("b", <<"a", "b">>)),
     OptionRemark("Style", ComboInfo("c", <<"a", "b">>)),
     OptionRemark("UCI_Chess960", CheckInfo(FALSE)),
     OptionRemark("Clear", ButtonInfo),
     OptionRemark("Path", StringInfo("p")),
     ReadyOk, Garbage}

InitHandshake ==
    /\ options = [c \in Color |-> NoOptions]
    /\ stdin = [c \in Color |-> <<>>]
    /\ pipe = [c \in Color |-> <<>>]
    /\ child = [c \in Color |-> ChildUp]
    /\ stream = [c \in Color |-> NoStream]
    /\ item = [c \in Color |-> NoItem]
    /\ recvd = [c \in Color |-> <<>>]
    /\ yielded = [c \in Color |-> <<>>]
    /\ last_call = [c \in Color |-> NoCall]
    /\ written = [c \in Color |-> 0]
    /\ hs = NoHandshake
    /\ hs_recvd = <<>>
    /\ last_set = NoSet
    /\ IdleMatch
    /\ IdleClock
    /\ IdleGame

HandSendUci ==
    HsSendUci(S) /\ UNCHANGED <<matchVars, clockVars, gameVars>>

HandRecv ==
    HsRecv(S) /\ UNCHANGED <<matchVars, clockVars, gameVars>>

\* The child writes a line of its handshake.
HandChildWrite ==
    \E line \in HandshakeLine :
        /\ child[S].stdout_open
        /\ Len(pipe[S]) < MaxPipe
        /\ written[S] < MaxHandshake
        /\ pipe' = [pipe EXCEPT ![S] = Append(@, line)]
        /\ written' = [written EXCEPT ![S] = @ + 1]
        /\ UNCHANGED <<options, stdin, child, stream, item, recvd, yielded,
                       last_call, matchVars, clockVars, hsVars, gameVars>>

HandChildClose ==
    \E how \in {"stdout", "exit"} :
        ChildClose(S, how) /\ UNCHANGED <<matchVars, clockVars, hsVars, gameVars>>

NextHandshake ==
    \/ HandSendUci
    \/ HandRecv
    \/ HandChildWrite
    \/ HandChildClose

SpecHandshake == InitHandshake /\ [][NextHandshake]_vars

IsIdName(r) == r.type = "Id" /\ r.field = "Name"
IsIdAuthor(r) == r.type = "Id" /\ r.field = "Author"
IsOption(r) == r.type = "Option"

\* The remarks of a handshake that call for a warning: all before the uciok
\* but the first name, the first author and the options.
C15_Warned(rs, i) ==
    /\ rs[i].type # "UciOk"
    /\ ~IsOption(rs[i])
    /\ ~(IsIdName(rs[i]) /\ \A j \in 1..(i - 1) : ~IsIdName(rs[j]))
    /\ ~(IsIdAuthor(rs[i]) /\ \A j \in 1..(i - 1) : ~IsIdAuthor(rs[j]))

RECURSIVE C15_Unexpected(_, _)
C15_Unexpected(rs, i) ==
    IF i > Len(rs) THEN <<>>
    ELSE (IF C15_Warned(rs, i) THEN <<UnexpectedRemark(rs[i])>> ELSE <<>>)
            \o C15_Unexpected(rs, i + 1)

C15_First(rs, is_kind(_)) ==
    LET at == {i \in 1..Len(rs) : is_kind(rs[i])}
    IN  IF at = {} THEN ""
        ELSE rs[CHOOSE i \in at : \A j \in at : i <= j].value

\* C15: after a successful handshake the warnings are one UnexpectedRemark,
\* in arrival order, for each remark before the uciok that is not the first
\* name, the first author or an option, then MissingName if no name came and
\* MissingAuthor if no author came; the engine's name and author are the
\* first that came, or empty.
C15_Warnings ==
    hs.phase = "open" =>
        /\ hs_recvd[Len(hs_recvd)] = UciOk
        /\ hs.warnings =
              C15_Unexpected(hs_recvd, 1)
                \o (IF \E i \in 1..Len(hs_recvd) : IsIdName(hs_recvd[i])
                    THEN <<>> ELSE <<MissingName>>)
                \o (IF \E i \in 1..Len(hs_recvd) : IsIdAuthor(hs_recvd[i])
                    THEN <<>> ELSE <<MissingAuthor>>)
        /\ hs.name = C15_First(hs_recvd, IsIdName)
        /\ hs.author = C15_First(hs_recvd, IsIdAuthor)
        /\ (Len(hs_recvd) = 4 /\ IsIdName(hs_recvd[1]) /\ IsIdAuthor(hs_recvd[2])
              /\ IsOption(hs_recvd[3])) => hs.warnings = <<>>

\* A handshake with a second name and no author has succeeded.
C15_Witness ==
    /\ hs.phase = "open"
    /\ hs_recvd = <<IdName("A"), IdName("B"), UciOk>>
    /\ hs.warnings = <<UnexpectedRemark(IdName("B")), MissingAuthor>>
    /\ hs.name = "A"

\* A handshake with a name, an author and an option has no warnings.
C15_Clean ==
    /\ hs.phase = "open"
    /\ Len(hs_recvd) = 4
    /\ IsIdName(hs_recvd[1]) /\ IsIdAuthor(hs_recvd[2]) /\ IsOption(hs_recvd[3])
    /\ hs.warnings = <<>>

C16_InvalidInfo(info) ==
    \/ info.kind = "Spin"
         /\ (info.min > info.max \/ info.default < info.min
                \/ info.default > info.max)
    \/ info.kind = "Combo"
         /\ \A i \in 1..Len(info.labels) : info.labels[i] # info.default

\* The field an option remark declares.
C16_Declared(info) ==
    CASE info.kind = "Check" -> Check(info.default)
      [] info.kind = "Spin" -> Spin(info.default, info.min, info.max)
      [] info.kind = "Combo" ->
            Combo((CHOOSE i \in 1..Len(info.labels) :
                      /\ info.labels[i] = info.default
                      /\ \A j \in 1..(i - 1) : info.labels[j] # info.default) - 1,
                  info.labels)
      [] info.kind = "String" -> String(info.default)

\* C16: the option table holds, under each name an option remark other than
\* a Button has declared, the field of the last such remark with its
\* default (for a Combo the index of the default among the labels), and no
\* other name; a Spin with min > max or a default outside [min, max], or a
\* Combo whose default is not a label, fails the construction with
\* InvalidOption when it is received, and nothing else does.
C16_OptionRegistered ==
    LET n == Len(hs_recvd)
        stored == {i \in 1..n : IsOption(hs_recvd[i])
                                /\ hs_recvd[i].info.kind # "Button"
                                /\ ~C16_InvalidInfo(hs_recvd[i].info)}
        invalid == {i \in 1..n : IsOption(hs_recvd[i])
                                 /\ C16_InvalidInfo(hs_recvd[i].info)}
    IN  /\ DOMAIN options[S] = {hs_recvd[i].name : i \in stored}
        /\ \A i \in stored :
              (\A j \in stored : j > i => hs_recvd[j].name # hs_recvd[i].name)
                  => options[S][hs_recvd[i].name] = C16_Declared(hs_recvd[i].info)
        /\ invalid # {} <=> (hs.phase = "failed" /\ hs.error = InvalidOption)
        /\ invalid \subseteq {n}

\* A handshake that declared a Spin, a Combo and a Button has succeeded.
C16_Witness ==
    /\ hs.phase = "open"
    /\ DOMAIN options[S] = {"Hash", "Style"}
    /\ options[S]["Hash"] = Spin(16, 1, 64)
    /\ options[S]["Style"] = Combo(1, <<"a", "b">>)

\* A handshake has failed on a Combo whose default is not a label.
C16_ComboRejected ==
    /\ hs.phase = "failed"
    /\ hs.error = InvalidOption
    /\ hs_recvd[Len(hs_recvd)] = OptionRemark("Style", ComboInfo("c", <<"a", "b">>))


---------------------------------------------------------------------------
(* SpecOptions: set_option calls on a session whose handshake has         *)
(* succeeded.                                                              *)

\* What the child wrote before its uciok.
HandshakeLines ==
    UNION {[1..n -> HandshakeLine \ {UciOk}] : n \in 0..(MaxHandshake - 1)}

SetNames == {"Hash", "Style", "UCI_Chess960", "Path", "Clear"}
SetValues ==
    {CheckValue(TRUE), CheckValue(FALSE), SpinValue(64), SpinValue(65),
     SpinValue(0), ComboValue(0), ComboValue(2), StringValue("q")}

InitOptions ==
    /\ \E lines \in HandshakeLines :
          LET made == init_loop(InitLocals, NoOptions, lines \o <<UciOk>>)
          IN  /\ made.result = Ok
              /\ options = [c \in Color |-> IF c = S THEN made.options ELSE NoOptions]
              /\ hs = [Opened EXCEPT !.name = made.name, !.author = made.author]
    /\ stdin = [c \in Color |-> IF c = S THEN <<[cmd |-> "Uci"]>> ELSE <<>>]
    /\ pipe = [c \in Color |-> <<>>]
    /\ child = [c \in Color |-> ChildUp]
    /\ stream = [c \in Color |-> NoStream]
    /\ item = [c \in Color |-> NoItem]
    /\ recvd = [c \in Color |-> <<>>]
    /\ yielded = [c \in Color |-> <<>>]
    /\ last_call = [c \in Color |-> NoCall]
    /\ written = [c \in Color |-> 0]
    /\ hs_recvd = <<>>
    /\ last_set = NoSet
    /\ IdleMatch
    /\ IdleClock
    /\ IdleGame

OptSet ==
    /\ last_set.n < MaxSets
    /\ \E name \in SetNames, value \in SetValues : SetOption(S, name, value)
    /\ UNCHANGED <<matchVars, clockVars, gameVars>>

OptChildClose ==
    \E how \in {"stdout", "exit"} :
        ChildClose(S, how) /\ UNCHANGED <<matchVars, clockVars, hsVars, gameVars>>

NextOptions ==
    \/ OptSet
    \/ OptChildClose

SpecOptions == InitOptions /\ [][NextOptions]_vars

\* set_option has returned.
SetReturned == last_set # NoSet
\* The option the last call named, as the table held it at the call.
SetField == last_set.before[last_set.name]
SetKnown == last_set.name \in DOMAIN last_set.before
SetMatches == SetKnown /\ SetField.type = last_set.value.type
SetOutside ==
    /\ SetMatches
    /\ \/ /\ SetField.type = "Spin"
          /\ (last_set.value.value < SetField.min \/ last_set.value.value > SetField.max)
       \/ /\ SetField.type = "Combo"
          /\ last_set.value.value >= Len(SetField.labels)
\* The call wrote nothing and changed nothing.
SetNoEffect ==
    /\ stdin[S] = SubSeq(stdin[S], 1, last_set.sent)
    /\ Len(stdin[S]) = last_set.sent
    /\ options[S] = last_set.before

\* C12: a set_option call fails with NoSuchOption exactly when the name is
\* not in the table, with TypeMismatch exactly when the name is there and
\* the value's variant is not the field's, and with OutOfRange exactly when
\* the variants agree and a Spin value is outside min..max or a Combo index
\* is not below the number of labels; each of these failures writes no
\* command and leaves the table as it was.
C12_FailedSetNoEffect ==
    SetReturned =>
        /\ (last_set.result = NoSuchOption) <=> ~SetKnown
        /\ (last_set.result = TypeMismatch) <=> (SetKnown /\ ~SetMatches)
        /\ (last_set.result = OutOfRange) <=> SetOutside
        /\ last_set.result \in {NoSuchOption, TypeMismatch, OutOfRange} => SetNoEffect

C12_Witness ==
    /\ SetReturned
    /\ last_set.result = OutOfRange
    /\ last_set.name = "Hash"
    /\ last_set.value = SpinValue(65)
    /\ last_set.n = 2
    /\ Len(stdin[S]) = 2

C12_NoSuchOption ==
    SetReturned /\ last_set.result = NoSuchOption /\ last_set.name = "Clear"

C12_TypeMismatch ==
    /\ SetReturned
    /\ last_set.result = TypeMismatch
    /\ last_set.name = "Style"
    /\ last_set.value = SpinValue(0)

C12_ComboOutOfRange ==
    /\ SetReturned
    /\ last_set.result = OutOfRange
    /\ last_set.value = ComboValue(2)

\* The text UCI asks for, written out for the values the calls draw.
C13_Text ==
    CASE last_set.value = CheckValue(TRUE) -> "true"
      [] last_set.value = CheckValue(FALSE) -> "false"
      [] last_set.value = SpinValue(64) -> "64"
      [] last_set.value = ComboValue(0) -> "a"
      [] last_set.value = StringValue("q") -> "q"

\* C13: a set_option call whose value matches the field's variant and is in
\* range, and that returns Ok, has appended exactly one SetOption command to
\* the engine's stdin, with the option's name and the value as UCI text
\* ("true"/"false", the base-10 integer, the label at the index, the string
\* as given), and the table then holds the new value for that option and is
\* otherwise as before; the only other outcome of such a call is the failed
\* write.
C13_SetSendsAndStores ==
    (SetReturned /\ SetMatches /\ ~SetOutside) =>
        /\ last_set.result \in {Ok, IoError}
        /\ last_set.result = Ok =>
              /\ Len(stdin[S]) = last_set.sent + 1
              /\ stdin[S][Len(stdin[S])] =
                    [cmd |-> "SetOption", name |-> last_set.name,
                     value |-> {C13_Text}]
              /\ DOMAIN options[S] = DOMAIN last_set.before
              /\ options[S][last_set.name].value = last_set.value.value
              /\ options[S][last_set.name] =
                    [SetField EXCEPT !.value = last_set.value.value]
              /\ \A other \in DOMAIN options[S] \ {last_set.name} :
                    options[S][other] = last_set.before[other]

C13_Witness ==
    /\ SetReturned
    /\ last_set.result = Ok
    /\ last_set.name = "Style"
    /\ last_set.value = ComboValue(0)
    /\ SetField.value = 1
    /\ options[S]["Style"] = Combo(0, <<"a", "b">>)
    /\ stdin[S] = <<[cmd |-> "Uci"], SetOptionCmd("Style", "a")>>

C13_SpinSent ==
    /\ SetReturned
    /\ last_set.result = Ok
    /\ last_set.value = SpinValue(64)
    /\ options[S]["Hash"] = Spin(64, 1, 64)
    /\ stdin[S][Len(stdin[S])] = SetOptionCmd("Hash", "64")

C13_CheckSent ==
    /\ SetReturned
    /\ last_set.result = Ok
    /\ last_set.value = CheckValue(TRUE)
    /\ options[S]["UCI_Chess960"] = Check(TRUE)
    /\ stdin[S][Len(stdin[S])] = SetOptionCmd("UCI_Chess960", "true")

\* Every Spin of the table is within its range and every Combo holds an
\* index of one of its labels.
C14_InRange(opts) ==
    \A name \in DOMAIN opts :
        /\ opts[name].type = "Spin" =>
              opts[name].min <= opts[name].value /\ opts[name].value <= opts[name].max
        /\ opts[name].type = "Combo" =>
              opts[name].value >= 0 /\ opts[name].value < Len(opts[name].labels)

\* C14: after a successful handshake and after every set_option call,
\* failed or not, every Spin option of the table has min <= value <= max
\* and every Combo option has value < labels.len().
C14_OptionsInRange == C14_InRange(options[S])

C14_Witness ==
    /\ SetReturned
    /\ last_set.n = 2
    /\ last_set.result = Ok
    /\ last_set.name = "Hash"
    /\ "Style" \in DOMAIN options[S]
    /\ options[S]["Hash"] = Spin(64, 1, 64)
    /\ options[S]["Style"] = Combo(0, <<"a", "b">>)


\* C29: a set_option call whose write fails returns the transport's error
\* and leaves the stored field, and the whole table, as it was; the table
\* differs from the one before the call only when the call returned Ok and
\* its SetOption command is the last one written.
C29_FailedWriteKeepsValue ==
    SetReturned =>
        /\ last_set.result = IoError =>
              /\ SetMatches /\ ~SetOutside
              /\ ~child[S].stdin_open
              /\ SetNoEffect
              /\ options[S][last_set.name] = SetField
        /\ options[S] # last_set.before =>
              /\ last_set.result = Ok
              /\ Len(stdin[S]) = last_set.sent + 1
              /\ stdin[S][Len(stdin[S])].cmd = "SetOption"
              /\ stdin[S][Len(stdin[S])].name = last_set.name

C29_Witness ==
    /\ SetReturned
    /\ last_set.result = IoError
    /\ last_set.name = "Hash"
    /\ last_set.value = SpinValue(64)
    /\ options[S]["Hash"] = Spin(16, 1, 64)
    /\ stdin[S] = <<[cmd |-> "Uci"]>>

---------------------------------------------------------------------------
(* SpecGame: a game played move by move, its status, its moves converted   *)
(* to the wire and back, and its position command.                        *)

GameBoards == {StdBoard(0), FrcBoard, KingOnDBoard, BareBoard}

AllMoves == {Mv(from, to) : from \in Square, to \in Square}

LegalMoves(b) == {mv \in AllMoves : IsLegal(b, mv)}

\* The moves the games go on with: castling and the rook shuffles.
GameMoves(b) ==
    {mv \in LegalMoves(b) :
        IsCastle(b, mv) \/ mv \in {W_h1g1, W_g1h1, B_a8b8, B_b8a8}}

\* A converted move: the move, the board it is legal on, the move as it is
\* written to the engine, and that read back.
Converted(b, mv, chess960) ==
    LET wire == decanonicalize_move(b, mv, chess960)
    IN  [n |-> 1, board |-> b, mv |-> mv, wire |-> wire,
         back |-> canonicalize_move(b, wire, chess960)]

InitGame ==
    /\ IdleSess
    /\ IdleHs
    /\ IdleClock
    /\ config = [c \in Color |-> [search_limit |-> {}, clock |-> Infinite]]
    /\ game \in {ChessGame_new(b) : b \in GameBoards}
    /\ white_clock = Infinite
    /\ black_clock = Infinite
    /\ match_result = {}
    /\ pc = "idle"
    /\ best_move = {}
    /\ events = <<>>
    /\ event_move = <<>>
    /\ error = None
    /\ plies = 0
    /\ last_ply = NoPly
    /\ failed_at = NoPly
    /\ cv_chess960 \in BOOLEAN
    /\ cv_last = NoMove

\* game.play(mv)
GamePlay ==
    /\ Len(game.stack) < MaxGamePlies
    /\ \E mv \in GameMoves(board(game)) :
          /\ ~play_panics(game, mv)
          /\ game' = play(game, mv)
    /\ cv_last' = NoMove
    /\ UNCHANGED <<sessVars, clockVars, hsVars, cv_chess960, config,
                   white_clock, black_clock, match_result, pc, best_move,
                   events, event_move, error, plies, last_ply, failed_at>>

\* A legal move of the current board goes to the wire and back.
GameConvert ==
    /\ \E mv \in LegalMoves(board(game)) :
          cv_last' = Converted(board(game), mv, cv_chess960)
    /\ UNCHANGED <<sessVars, matchVars, clockVars, hsVars, cv_chess960>>

NextGame ==
    \/ GamePlay
    \/ GameConvert

SpecGame == InitGame /\ [][NextGame]_vars

\* Engine::analyze takes the game in the mode: it does not return
\* Requires960.
C17_Playable == needs_chess960(game) => cv_chess960

\* C17: on every board of a game the mode can play and for every legal move
\* m, canonicalize(b, decanonicalize(b, m, c), c) is m; with Chess960 on the
\* move is written as it is, and with it off only castling is rewritten.
C17_RoundTrip ==
    (C17_Playable /\ cv_last.n > 0) =>
        /\ cv_last.back = cv_last.mv
        /\ cv_chess960 => cv_last.wire = cv_last.mv
        /\ (~cv_chess960 /\ ~IsCastle(cv_last.board, cv_last.mv)) =>
              cv_last.wire = cv_last.mv

\* How often the current position has occurred, the starting position one
\* of the positions.
C18_Occurrences ==
    Cardinality({i \in 1 .. Len(game.stack) :
                    same_position(game.stack[i].board, board(game))})
    + (IF same_position(game.init_pos, board(game)) THEN 1 ELSE 0)

\* C18: status() is the board's status when that is Won or Drawn; otherwise
\* it is Drawn exactly when the current position has occurred three times or
\* more among the positions of the game, the starting position included.
C18_StatusCountsStart ==
    status(game) =
        IF BoardStatus(board(game)) # "Ongoing" THEN BoardStatus(board(game))
        ELSE IF C18_Occurrences >= 3 THEN "Drawn"
        ELSE "Ongoing"

\* The engine's side of a position command: each move read back and played.
RECURSIVE C20_Replay(_, _, _)
C20_Replay(b, moves, chess960) ==
    IF Len(moves) = 0 THEN b
    ELSE LET mv == canonicalize_move(b, Head(moves), chess960)
         IN  IF IsLegal(b, mv)
             THEN C20_Replay(BoardPlay(b, mv), Tail(moves), chess960)
             ELSE [illegal |-> mv]

\* C20: the position command of a game the mode can play starts from the
\* game's initial position, its i-th move is decanonicalize(the board before
\* move i, move i, chess960), and replaying it gives game.board().
C20_PositionReplays ==
    C17_Playable =>
        LET cmd == game_to_position_message(game, cv_chess960)
        IN  /\ cmd.init_pos = game.init_pos
            /\ Len(cmd.moves) = Len(game.stack)
            /\ \A i \in 1 .. Len(game.stack) :
                  cmd.moves[i] =
                      decanonicalize_move(
                          IF i = 1 THEN game.init_pos ELSE game.stack[i - 1].board,
                          game.stack[i].mv, cv_chess960)
            /\ C20_Replay(cmd.init_pos, cmd.moves, cv_chess960) = board(game)


\* The board move i of the game was played on.
C25_BoardBefore(g, i) == IF i = 1 THEN g.init_pos ELSE g.stack[i - 1].board

\* Each entry holds a move legal on the board before it and that board
\* after the move; board() is the last board.
C25_Chain ==
    /\ \A i \in 1 .. Len(game.stack) :
          /\ IsLegal(C25_BoardBefore(game, i), game.stack[i].mv)
          /\ game.stack[i].board =
                BoardPlay(C25_BoardBefore(game, i), game.stack[i].mv)
    /\ board(game) = C25_BoardBefore(game, Len(game.stack) + 1)

\* A step leaves init_pos alone, and a step that changes the game appends
\* one entry to the history and changes no other.
C25_Grow ==
    /\ game'.init_pos = game.init_pos
    /\ game'.stack # game.stack =>
          /\ Len(game'.stack) = Len(game.stack) + 1
          /\ SubSeq(game'.stack, 1, Len(game.stack)) = game.stack

\* C25: after any sequence of play calls init_pos is unchanged, the history
\* has grown by one entry per play with none removed or altered, the first
\* resulting board is init_pos after the first move and each later one is
\* the one before it after its move, every move was legal where it was
\* played, and board() is the last resulting board, or init_pos when the
\* history is empty.
C25_HistoryChain == []C25_Chain /\ [][C25_Grow]_vars

C25_Witness ==
    /\ Len(game.stack) = 3
    /\ game.init_pos = KingOnDBoard
    /\ IsCastle(game.init_pos, game.stack[1].mv)
    /\ board(game) = game.stack[3].board
    /\ board(game) # game.init_pos

---------------------------------------------------------------------------
(* SpecLifecycle: one engine from Engine::new on, its handshake and then   *)
(* its analyses, beside a child that may close its pipes at any time.      *)

LifeLine ==
    {UciOk, OptionRemark("UCI_Chess960", CheckInfo(FALSE)), InfoRemark(1),
     Garbage, BestMoveRemark(Mv(Sq(FileE, 1), Sq(FileG, 1)))}

InitLifecycle == InitHandshake

LifeSendUci == HsSendUci(S) /\ UNCHANGED <<matchVars, clockVars, gameVars>>

LifeInitRecv == HsRecv(S) /\ UNCHANGED <<matchVars, clockVars, gameVars>>

\* Only Engine::new's Ok hands out an engine to analyze with.
LifeAnalyze ==
    \E limit \in AnalysisLimit :
        /\ hs.phase = "open"
        /\ last_call[S].n < MaxAnalyses
        /\ Analyze(S, ChessGame_new(StdBoard(0)), limit)
        /\ UNCHANGED <<matchVars, clockVars, hsVars, gameVars>>

\* The engine's owner sets an option; the stream, while there is one, has
\* the engine borrowed.
LifeSetOption ==
    /\ last_set.n < MaxSets
    /\ \E value \in {CheckValue(TRUE), SpinValue(0)} :
          SetOption(S, "UCI_Chess960", value)
    /\ UNCHANGED <<matchVars, clockVars, gameVars>>

LifeSendPosition == StreamSendPosition(S) /\ UNCHANGED <<matchVars, clockVars, hsVars, gameVars>>

LifeSendGo == StreamSendGo(S) /\ UNCHANGED <<matchVars, clockVars, hsVars, gameVars>>

LifeRecv == StreamRecv(S) /\ UNCHANGED <<matchVars, clockVars, hsVars, gameVars>>

LifeEnd == StreamEnd(S) /\ UNCHANGED <<matchVars, clockVars, hsVars, gameVars>>

LifeDrop == StreamDrop(S) /\ UNCHANGED <<matchVars, clockVars, hsVars, gameVars>>

LifeChildWrite ==
    \E line \in LifeLine :
        ChildWrite(S, line) /\ UNCHANGED <<matchVars, clockVars, hsVars, gameVars>>

LifeChildClose ==
    \E how \in {"stdout", "exit"} :
        ChildClose(S, how) /\ UNCHANGED <<matchVars, clockVars, hsVars, gameVars>>

NextLifecycle ==
    \/ LifeSendUci
    \/ LifeInitRecv
    \/ LifeAnalyze
    \/ LifeSetOption
    \/ LifeSendPosition
    \/ LifeSendGo
    \/ LifeRecv
    \/ LifeEnd
    \/ LifeDrop
    \/ LifeChildWrite
    \/ LifeChildClose

SpecLifecycle == InitLifecycle /\ [][NextLifecycle]_vars

\* While a stream is there, the engine's owner makes no call on the
\* session, and what is written to the child is that stream's position
\* command or its go command.
C22_Step ==
    stream[S] # NoStream =>
        /\ last_set' = last_set
        /\ last_call' = last_call
        /\ stream'[S] # NoStream => stream'[S].position_cmd = stream[S].position_cmd
        /\ stdin'[S] # stdin[S] =>
              \E cmd \in {stream[S].position_cmd, stream[S].go_cmd} :
                  stdin'[S] = Append(stdin[S], cmd)

\* C22: a session has at most one analysis stream at a time, and from the
\* analyze call until the stream is dropped no set_option and no other
\* analyze is made on the session: the only commands sent are the stream's
\* own position and go.
C22_StreamExcludes == [][C22_Step]_vars

\* A stream is reading after an option was set and an earlier stream was
\* dropped.
C22_Witness ==
    /\ stream[S].state = "loop"
    /\ last_call[S].n = 2
    /\ last_set.n = 1
    /\ last_set.result = Ok
    /\ Len(stdin[S]) >= 4

\* The child has closed its stdout and every line it wrote has been read.
C11_Closed == ~child[S].stdout_open /\ pipe[S] = <<>>

C11_Step ==
    \* the handshake awaits a remark: construction fails
    /\ (hs.phase = "loop" /\ C11_Closed /\ hs'.phase # "loop") =>
          /\ hs'.phase = "failed"
          /\ hs'.error = UnexpectedTermination
          /\ UciOk \notin {hs_recvd[i] : i \in 1 .. Len(hs_recvd)}
    \* and there is no session: nothing is ever asked of the engine
    /\ hs.phase = "failed" =>
          /\ hs' = hs
          /\ last_call[S] = NoCall /\ last_call' = last_call
          /\ stream[S] = NoStream /\ stream' = stream
    \* the analysis awaits a remark: the stream's item is the error
    /\ (stream[S].state = "loop" /\ C11_Closed
            /\ stream'[S].state \notin {"loop", "none"}) =>
          /\ stream'[S].state = "failed"
          /\ item'[S] = ItemErr(UnexpectedTermination)
          /\ yielded' = yielded
          /\ Len(SelectSeq(yielded[S], IsBestMove)) = 0
    \* and the stream ends there, still without a BestMove
    /\ stream[S].state = "failed" =>
          /\ stream'[S].state \in {"failed", "done", "none"}
          /\ yielded' = yielded

\* C11: when the engine closes its stdout while a remark is awaited, the
\* error is UnexpectedTermination: during the handshake, before UciOk,
\* construction fails with it and no session exists; during an analysis,
\* before the BestMove, the stream yields it as its error and ends without a
\* BestMove event.
C11_TerminationSurfaces == [][C11_Step]_vars

C11_Witness ==
    /\ hs.phase = "open"
    /\ stream[S].state = "failed"
    /\ item[S] = ItemErr(UnexpectedTermination)
    /\ Len(yielded[S]) > 0
    /\ C11_Closed

C11_HandshakeCut ==
    /\ hs.phase = "failed"
    /\ hs.error = UnexpectedTermination
    /\ Len(hs_recvd) > 0
    /\ C11_Closed


\* Once the session's last operation has failed with UnexpectedTermination,
\* a set_option made next does not return Ok and an analysis does not
\* deliver a BestMove.
C26_Step ==
    item[S] = ItemErr(UnexpectedTermination) =>
        /\ last_set'.n > last_set.n => last_set'.result # Ok
        /\ Len(SelectSeq(yielded'[S], IsBestMove)) = 0

\* C26: once an operation on a session has failed with
\* UnexpectedTermination the session is unusable: no later set_option or
\* analyze on it reports success.
C26_UnusableAfterTermination == [][C26_Step]_vars

====
